---- MODULE Spec2Model ----
(***************************************************************************)
(* TAVA GPIO control panel: the configuration store (config_manager.py),   *)
(* the configuration editor (config_window.py, main_window.py, V3.0.py),   *)
(* the start-up code (main_window.py, gui.py, V3.0.py),                    *)
(* the simulated GPIO register (gpio_handler.py) and the mic push-to-talk  *)
(* state machine (main_window.py, V3.0.py).                                *)
(*                                                                         *)
(* A Python dict is modelled as a sequence of [k, v] records with distinct *)
(* keys, in insertion order.  The configuration file is modelled as the    *)
(* sequence of JSON tokens json.dump writes and json.load parses.          *)
(***************************************************************************)
EXTENDS Integers, Sequences, FiniteSets, TLC

\* ------------------------------------------------------------------ bounds
\* longest mapping handed to save_config in SpecStore
MaxLen == 2
\* most GPIO.output calls in SpecGpio
MaxCalls == 3
\* most save, delete and clear operations in SpecEditor
MaxOps == 2
\* most polls of the mic pin while its level stays the same, in SpecMic
MaxTicks == 3
\* most changes of the level of the mic pin in SpecMic
MaxChanges == 2
\* most threads of one sampler alive at once in SpecThreads
MaxThreads == 2
\* most start and stop calls in SpecThreads
MaxStarts == 4
\* most passes of a sampling loop in SpecGauge
MaxHold == 52

\* ------------------------------------------------------- pin registry
NOSE_GEAR_PIN == 13
LEFT_GEAR_PIN == 19
RIGHT_GEAR_PIN == 26
LEFT_NAV_PIN == 22
RIGHT_NAV_PIN == 23
TAIL_NAV_PIN == 24
MIC_CONTROL_PIN == 4
ANALOG_INPUT_MODULE_ID == "2,3"

\* str(pin) for the pin numbers the program uses
str(pin) ==
    CASE pin = 4 -> "4" [] pin = 5 -> "5" [] pin = 6 -> "6" [] pin = 12 -> "12"
      [] pin = 13 -> "13" [] pin = 16 -> "16" [] pin = 19 -> "19"
      [] pin = 20 -> "20" [] pin = 21 -> "21" [] pin = 22 -> "22"
      [] pin = 23 -> "23" [] pin = 24 -> "24" [] pin = 25 -> "25"
      [] pin = 26 -> "26" [] pin = 2 -> "2" [] pin = 3 -> "3"

\* ------------------------------------------------------- Python dict
EmptyDict == <<>>

DictHas(d, k) == \E i \in 1..Len(d) : d[i].k = k

DictIndex(d, k) == CHOOSE i \in 1..Len(d) : d[i].k = k

DictGet(d, k) == d[DictIndex(d, k)].v

\* d[k] = v : an existing key keeps its place, a new key goes last
DictSet(d, k, v) ==
    IF DictHas(d, k)
    THEN [d EXCEPT ![DictIndex(d, k)] = [k |-> k, v |-> v]]
    ELSE Append(d, [k |-> k, v |-> v])

\* del d[k]
DictDel(d, k) == SelectSeq(d, LAMBDA e : e.k # k)

DictKeys(d) == {d[i].k : i \in 1..Len(d)}

DictValues(d) == {d[i].v : i \in 1..Len(d)}

\* ------------------------------------------------------- JSON text
Tok(t, s) == [t |-> t, s |-> s]

LB == Tok("{", "")
RB == Tok("}", "")
COLON == Tok(":", "")
COMMA == Tok(",", "")

RECURSIVE DumpItems(_, _)
DumpItems(d, i) ==
    IF i > Len(d) THEN <<>>
    ELSE (IF i > 1 THEN <<COMMA>> ELSE <<>>)
         \o <<Tok("str", d[i].k), COLON, Tok("str", d[i].v)>>
         \o DumpItems(d, i + 1)

\* faulty variant of json_dump: the members are written last to first
RECURSIVE DumpItemsRev(_, _)
DumpItemsRev(d, i) ==
    IF i < 1 THEN <<>>
    ELSE (IF i < Len(d) THEN <<COMMA>> ELSE <<>>)
         \o <<Tok("str", d[i].k), COLON, Tok("str", d[i].v)>>
         \o DumpItemsRev(d, i - 1)

json_dump_reversed(config) == <<LB>> \o DumpItemsRev(config, Len(config)) \o <<RB>>

\* json.dump(config, f, indent=4): the text of a str -> str dict
json_dump(config) == <<LB>> \o DumpItems(config, 1) \o <<RB>>

\* members  "k": "v" (, "k": "v")* }  from token i on; acc is the dict so far
RECURSIVE ParseMembers(_, _, _)
ParseMembers(toks, i, acc) ==
    IF /\ i + 3 <= Len(toks)
       /\ toks[i].t = "str" /\ toks[i + 1].t = ":" /\ toks[i + 2].t = "str"
    THEN LET acc2 == DictSet(acc, toks[i].s, toks[i + 2].s)
         IN  IF toks[i + 3].t = "}"
             THEN [ok |-> (i + 3 = Len(toks)), val |-> acc2]
             ELSE IF toks[i + 3].t = ","
                  THEN ParseMembers(toks, i + 4, acc2)
                  ELSE [ok |-> FALSE, val |-> EmptyDict]
    ELSE [ok |-> FALSE, val |-> EmptyDict]

\* json.load(f): ok = FALSE stands for json.JSONDecodeError
json_load(toks) ==
    IF Len(toks) < 2 \/ toks[1].t # "{"
    THEN [ok |-> FALSE, val |-> EmptyDict]
    ELSE IF toks[2].t = "}"
         THEN [ok |-> (Len(toks) = 2), val |-> EmptyDict]
         ELSE ParseMembers(toks, 2, EmptyDict)

\* ------------------------------------------------------- state
VARIABLES
    file,        \* gpio_config.json: [kind, content]; kind is "missing",
                 \* "unreadable" (cannot be opened at all) or "ok"
    heap_import, \* content of the dict created by config_manager.py line 9, the
                 \* object that "from config_manager import config_data" binds in
                 \* main_window, config_window, control_panel and gui
    cm,          \* what config_manager.config_data is bound to: [ref, own];
                 \* ref = "import" is the object above, ref = "own" a later dict
                 \* whose content is own
    ret,         \* what the last load_config() returned
    errorShown,  \* the last operation called messagebox.showerror
    lastOp,      \* the last operation that ran, and how it ended
    lastSaved    \* history: [valid, m], the mapping of the last write that
                 \* reached the file

storeVars == <<file, heap_import, cm, ret, errorShown, lastOp, lastSaved>>

VARIABLES
    platform,       \* sys.platform of the host, "win32" or "linux"
    import_outcome, \* how "import RPi.GPIO" ends on this host
    gpio_pc,        \* "start" before gpio_handler.py is imported, then "imported",
                    \* or "crashed" when the import raised
    SIMULATED_MODE, \* gpio_handler.SIMULATED_MODE
    GPIO,           \* what the name GPIO is bound to: "none", "real" or "mock"
    GPIO_state,     \* GPIO.state of the simulated module: a dict pin -> value
    gpio_call,      \* [op, pin, val]: the last call on GPIO and what it returned
                    \* (val is -1 for None)
    out_log,        \* history: the GPIO.output calls so far, <<pin, value>> each
    PIN_STATES      \* gpio_handler.PIN_STATES: a dict pin -> state, False and
                    \* True written 0 and 1

gpioRegs == <<platform, import_outcome, gpio_pc, SIMULATED_MODE, GPIO, GPIO_state,
              gpio_call, out_log>>

gpioVars == <<gpioRegs, PIN_STATES>>

VARIABLES
    variant,       \* the program that runs: "V3.0" (V3.0.py), "main_window"
                   \* (main_window.py with config_window.py and control_panel.py)
                   \* or "gui" (gui.py)
    keep_config,   \* "--keep-config" in sys.argv
    app_pc,        \* "start" until the program's start-up code has run, then
                   \* "running"
    config_window, \* the configuration window: [open, pin_var, function_var,
                   \* dropdown], dropdown being the state of the pin dropdown
    ops            \* history: the save, delete and clear operations so far

editVars == <<variant, keep_config, app_pc, config_window, ops>>

VARIABLES
    keyed_up,          \* app.keyed_up
    audio_running,     \* app.audio_running
    mic_check_running, \* app.mic_check_running (V3.0.py, gui.py)
    pin_monitoring     \* app.pin_monitoring (main_window.py)

appVars == <<keyed_up, audio_running, mic_check_running, pin_monitoring>>

VARIABLES
    mic_pin,      \* the level of pin 4 on the hardware, what GPIO.input(4) returns
    adc_ok,       \* the ADS1115 on the I2C bus can be opened
    key_label,    \* the text of app.key_label
    after_queue,  \* the root.after(0, ...) callbacks of the pin monitor thread
                  \* that the UI thread has not run yet
    ticks,        \* history: polls of the mic pin since its level last changed
    poll_on,      \* history: STANDBY -> ACTIVE transitions those polls made
    poll_off,     \* history: ACTIVE -> STANDBY transitions those polls made
    pin_changes,  \* history: how often the level of the mic pin has changed
    keys_ever,    \* history: a 'k' key event has been delivered
    k_held        \* the 'k' key is down

micVars == <<mic_pin, adc_ok, key_label, after_queue, ticks, poll_on, poll_off,
             pin_changes, keys_ever, k_held>>

VARIABLES
    simulated_inputs, \* app.simulated_inputs: monitored pin -> 0 or 1
    gpio_input,       \* on hardware, what GPIO.input returns for a monitored pin
    indicators,       \* the fill colour of canvas item app.indicators[name]
    indicator_timers, \* the pending root.after(., update_indicators) callbacks:
                      \* [fast, slow], how many with delay 200 and with delay 1000
    tick_end          \* history: how the last execution of update_indicators
                      \* ended, "none" before the first one

panelVars == <<simulated_inputs, gpio_input, indicators, indicator_timers, tick_end>>

VARIABLES
    analog_monitoring,  \* app.analog_monitoring
    simulation_enabled, \* app.simulation_enabled, toggled with the 't' key
    audio_threads,      \* the threads start_audio_monitor has started that have
                        \* not returned: how many there are at each place of
                        \* the sampling loop
    analog_threads,     \* those of start_analog_monitoring
    pin_threads,        \* those of start_pin_monitoring
    sampler,            \* the local variables of the analog_monitor_thread
                        \* that SpecGauge follows
    gauges,             \* what the UI got from the samplers last
    calls,              \* history: the start and stop calls made in SpecThreads
    gauge_animation     \* the start-up animation of the gauges: [triggered,
                        \* animation, settle, start], the attribute
                        \* _gauge_animation_triggered exists, and the pending
                        \* root.after callbacks of gauge_startup_animation with
                        \* its animate_step chain, of settle_gauges_to_idle and
                        \* of start_analog_monitoring

\* the sampler state the editor never touches
samplerRest == <<analog_monitoring, simulation_enabled, audio_threads, analog_threads,
                 sampler, gauges, calls, gauge_animation>>

samplerVars == <<pin_threads, samplerRest>>

\* what the operations of one part leave alone
nonStoreVars == <<gpioVars, editVars, appVars, micVars, panelVars, samplerVars>>

nonGpioVars == <<storeVars, editVars, appVars, micVars, panelVars, samplerVars>>

\* the store as one value, for the operators below
StoreSt == [file |-> file, heap |-> heap_import, cm |-> cm, ret |-> ret,
            err |-> errorShown]

ImportRef == [ref |-> "import", own |-> EmptyDict]

OwnRef(d) == [ref |-> "own", own |-> d]

\* the dict a reference denotes
Deref(st, r) == IF r.ref = "import" THEN st.heap ELSE r.own

\* the value of config_manager.config_data
CmValue == IF cm.ref = "import" THEN heap_import ELSE cm.own

\* ------------------------------------------------------- config_manager.py
\* faulty variant of load_config: a failed load keeps the previous mapping
load_config_keep(st) ==
    IF st.file.kind = "ok" /\ json_load(st.file.content).ok
    THEN [st EXCEPT !.cm = OwnRef(json_load(st.file.content).val),
                    !.ret = json_load(st.file.content).val]
    ELSE [st EXCEPT !.ret = Deref(st, st.cm)]

\* load_config(): the three except branches all bind and return a new {}
load_config(st) ==
    IF st.file.kind = "missing"
    THEN [st EXCEPT !.cm = OwnRef(EmptyDict), !.ret = EmptyDict]
    ELSE IF st.file.kind = "unreadable"
    THEN [st EXCEPT !.cm = OwnRef(EmptyDict), !.ret = EmptyDict]
    ELSE IF ~json_load(st.file.content).ok
    THEN [st EXCEPT !.cm = OwnRef(EmptyDict), !.ret = EmptyDict]
    ELSE [st EXCEPT !.cm = OwnRef(json_load(st.file.content).val),
                    !.ret = json_load(st.file.content).val]

\* save_config(config); wok: open(CONFIG_FILE, "w") succeeds
save_config(st, config, wok) ==
    IF wok
    THEN [st EXCEPT !.file = [kind |-> "ok", content |-> json_dump(Deref(st, config))],
                    !.cm = config]
    ELSE [st EXCEPT !.err = TRUE]

\* clear_config_on_startup(); wok as above
clear_config_on_startup(st, wok) ==
    IF wok
    THEN [st EXCEPT !.cm = OwnRef(EmptyDict),
                    !.file = [kind |-> "ok", content |-> json_dump(EmptyDict)]]
    ELSE [st EXCEPT !.cm = OwnRef(EmptyDict)]

\* gpio_config.json does not exist
NoFile == [kind |-> "missing", content |-> <<>>]

\* open(CONFIG_FILE, "w") can succeed on this file
CanWrite(f) == f.kind # "unreadable"

NoSave == [valid |-> FALSE, m |-> EmptyDict]

\* the process before any call on config_manager: config_data = {} (line 9)
InitStoreVars ==
    /\ heap_import = EmptyDict
    /\ cm = ImportRef
    /\ ret = EmptyDict
    /\ errorShown = FALSE
    /\ lastOp = "init"
    /\ lastSaved = NoSave

NoWindow ==
    [open |-> FALSE, pins |-> {}, pin_var |-> "", function_var |-> "",
     dropdown |-> "readonly"]

\* the mic pin idle (pulled up), the label as setup_gui creates it
InitMicVars ==
    /\ mic_pin = 1
    /\ key_label = "STAND-BY"
    /\ after_queue = <<>>
    /\ ticks = 0
    /\ poll_on = 0
    /\ poll_off = 0
    /\ pin_changes = 0
    /\ keys_ever = FALSE
    /\ k_held = FALSE

\* MONITORING_PINS without the mic pin: the pins the indicators show
IndicatorPins == {NOSE_GEAR_PIN, LEFT_GEAR_PIN, RIGHT_GEAR_PIN,
                  LEFT_NAV_PIN, RIGHT_NAV_PIN, TAIL_NAV_PIN}

\* the keys of app.indicators, in the order update_indicators paints them
IndicatorNames == <<"nose", "left", "right", "nav_left", "nav_right", "nav_tail">>

GearNames == {"nose", "left", "right"}

\* the pin update_indicators reads for an indicator
indicator_pin(name) ==
    CASE name = "nose" -> NOSE_GEAR_PIN
      [] name = "left" -> LEFT_GEAR_PIN
      [] name = "right" -> RIGHT_GEAR_PIN
      [] name = "nav_left" -> LEFT_NAV_PIN
      [] name = "nav_right" -> RIGHT_NAV_PIN
      [] name = "nav_tail" -> TAIL_NAV_PIN

\* draw_square(name, x, y) and draw_circle(name, x, y) with their default colours
draw_indicators == [n \in {IndicatorNames[i] : i \in 1..Len(IndicatorNames)} |->
                       IF n \in GearNames THEN "red" ELSE "gray"]

NoTimers == [fast |-> 0, slow |-> 0]

\* every monitored pin idle (pulled up), the indicators as setup_control_panel
\* draws them, update_indicators not started
InitPanelVars ==
    /\ simulated_inputs = [p \in IndicatorPins |-> 1]
    /\ gpio_input = [p \in IndicatorPins |-> 1]
    /\ indicators = draw_indicators
    /\ indicator_timers = NoTimers
    /\ tick_end = "none"

\* ---------------------------------------------------- sampling threads
\* where a sampling thread can be: at the test of its `while flag:` loop or in
\* the body of the loop (sample, hand the value to the UI, sleep); stale says
\* that the thread was running when the stop operation was called
ThreadStates == [pc : {"test", "body"}, stale : BOOLEAN]

NoThreads == [s \in ThreadStates |-> 0]

AtTest(stale) == [pc |-> "test", stale |-> stale]

InBody(stale) == [pc |-> "body", stale |-> stale]

\* how many threads of a population are alive, and how many of them were
\* running when the stop operation was last called
Alive(T) == T[AtTest(FALSE)] + T[InBody(FALSE)] + T[AtTest(TRUE)] + T[InBody(TRUE)]

Stale(T) == T[AtTest(TRUE)] + T[InBody(TRUE)]

\* threading.Thread(target=..., daemon=True).start(): one more thread, about
\* to test its flag for the first time
spawn(T) == [T EXCEPT ![AtTest(FALSE)] = @ + 1]

\* the stop operation cleared the flag with the threads of T running
stop_seen_by(T) ==
    [s \in ThreadStates |->
        IF s.stale THEN T[s] + T[[pc |-> s.pc, stale |-> FALSE]] ELSE 0]

\* one step of a thread at s: `while flag:` enters the body or leaves the loop
\* and returns; the body ends at the test again
thread_step(T, s, flag) ==
    IF s.pc = "body"
    THEN [T EXCEPT ![s] = @ - 1, ![[pc |-> "test", stale |-> s.stale]] = @ + 1]
    ELSE IF flag
    THEN [T EXCEPT ![s] = @ - 1, ![[pc |-> "body", stale |-> s.stale]] = @ + 1]
    ELSE [T EXCEPT ![s] = @ - 1]

\* the pin monitor of main_window.py, started by __init__ on hardware
PinThreadsAt(monitoring) == IF monitoring THEN spawn(NoThreads) ELSE NoThreads

\* the three channels of the gauge group at 0
NoChannels == [pot |-> 0, temp |-> 0, aux |-> 0]

\* the local variables of the sampling thread started last: of
\* analog_monitor_thread (raw, smoothed, vals and dirs for sim_values and
\* sim_dirs, i) or of fake_audio and adc_mic_monitor (level, direction); kind
\* is the branch the thread took, turns counts the passes of its loop, queued
\* says that root.after(0, ...) callbacks of it wait for the UI thread.
\* Percentages are kept in millionths of a percent.
NoSampler ==
    [thread |-> "none", kind |-> "none", pc |-> "none", raw |-> NoChannels,
     smoothed |-> NoChannels, vals |-> <<0, 0, 0>>, dirs |-> <<1, 1, 1>>, i |-> 1,
     level |-> 0, direction |-> 1, turns |-> 0, queued |-> FALSE]

\* the thread was started and has not run yet
NewSampler(thread) == [NoSampler EXCEPT !.thread = thread, !.pc = "begin"]

\* what the UI got last: the gauge values, the mic level and the signal quality,
\* in millionths of a percent; handed says that a gauge callback has run
NoGauges == [pot |-> 0, temp |-> 0, aux |-> 0, mic |-> 0, signal |-> 0, handed |-> FALSE]

\* no animation triggered, none of its callbacks pending
NoAnimation == [triggered |-> FALSE, animation |-> 0, settle |-> 0, start |-> 0]

\* no sampler started but the pin monitor
InitSamplerVars ==
    /\ analog_monitoring = FALSE
    /\ simulation_enabled = FALSE
    /\ audio_threads = NoThreads
    /\ analog_threads = NoThreads
    /\ pin_threads = PinThreadsAt(pin_monitoring)
    /\ sampler = NoSampler
    /\ gauges = NoGauges
    /\ calls = 0
    /\ gauge_animation = NoAnimation

\* no program started yet
InitAppVars ==
    /\ InitPanelVars
    /\ adc_ok = TRUE
    /\ variant = "main_window"
    /\ keep_config = FALSE
    /\ app_pc = "start"
    /\ config_window = NoWindow
    /\ ops = 0
    /\ keyed_up = FALSE
    /\ audio_running = FALSE
    /\ mic_check_running = FALSE
    /\ pin_monitoring = FALSE
    /\ InitMicVars
    /\ InitSamplerVars

\* ------------------------------------------------------- gpio_handler.py
\* how "import RPi.GPIO" can end: the module loads, it is not installed
\* (ImportError), or its own start-up code raises (RuntimeError on a host that is
\* no Raspberry Pi)
ImportOutcomes == {"ok", "ImportError", "RuntimeError"}

Platforms == {"win32", "linux"}

\* the module-level block of gpio_handler.py, lines 37-107
gpio_fallback(plat, outcome) ==
    IF plat = "win32"
    THEN [pc |-> "imported", sim |-> TRUE, gpio |-> "mock"]
    ELSE IF outcome = "ok"
    THEN [pc |-> "imported", sim |-> FALSE, gpio |-> "real"]
    ELSE IF outcome = "ImportError"
    THEN [pc |-> "imported", sim |-> TRUE, gpio |-> "mock"]
    ELSE [pc |-> "crashed", sim |-> FALSE, gpio |-> "none"]

\* GPIO.setup = lambda x, y, pull_up_down=None: None
mock_setup(state, pin) == state

\* mock_output(pin, state): GPIO.state[pin] = state
mock_output(state, pin, value) == DictSet(state, pin, value)

\* faulty variant of mock_input: GPIO.input left bound to "lambda x: 1"
mock_input_lambda(state, pin) == 1

\* mock_input(pin): GPIO.state.get(pin, 1)
mock_input(state, pin) == IF DictHas(state, pin) THEN DictGet(state, pin) ELSE 1

\* GPIO.cleanup = lambda: None
mock_cleanup(state) == state

\* the pins the calls below use: two monitored inputs and one output pin
GpioPins == {MIC_CONTROL_PIN, NOSE_GEAR_PIN, 5}

Levels == {0, 1}

NoCall == [op |-> "none", pin |-> 0, val |-> -1]

\* before gpio_handler.py is imported
InitGpioState ==
    /\ gpio_pc = "start"
    /\ SIMULATED_MODE = FALSE
    /\ GPIO = "none"
    /\ GPIO_state = EmptyDict
    /\ gpio_call = NoCall
    /\ out_log = <<>>
    /\ PIN_STATES = EmptyDict

\* a development host on which the driver is not installed
InitGpioVars ==
    /\ platform = "linux"
    /\ import_outcome = "ImportError"
    /\ InitGpioState

\* any host
InitGpio ==
    /\ platform \in Platforms
    /\ import_outcome \in ImportOutcomes
    /\ InitGpioState
    /\ file = NoFile
    /\ InitStoreVars
    /\ InitAppVars

\* process start: gpio_handler.py is imported
GpioImport ==
    /\ gpio_pc = "start"
    /\ LET r == gpio_fallback(platform, import_outcome)
       IN  /\ gpio_pc' = r.pc
           /\ SIMULATED_MODE' = r.sim
           /\ GPIO' = r.gpio
    /\ UNCHANGED <<platform, import_outcome, GPIO_state, gpio_call, out_log, PIN_STATES>>
    /\ UNCHANGED nonGpioVars

MockReady == gpio_pc = "imported" /\ GPIO = "mock"

GpioSetup ==
    /\ MockReady
    /\ \E pin \in GpioPins :
          /\ GPIO_state' = mock_setup(GPIO_state, pin)
          /\ gpio_call' = [op |-> "setup", pin |-> pin, val |-> -1]
    /\ UNCHANGED <<platform, import_outcome, gpio_pc, SIMULATED_MODE, GPIO, out_log,
                   PIN_STATES>>
    /\ UNCHANGED nonGpioVars

GpioOutput ==
    /\ MockReady
    /\ Len(out_log) < MaxCalls
    /\ \E pin \in GpioPins, value \in Levels :
          /\ GPIO_state' = mock_output(GPIO_state, pin, value)
          /\ gpio_call' = [op |-> "output", pin |-> pin, val |-> -1]
          /\ out_log' = Append(out_log, <<pin, value>>)
    /\ UNCHANGED <<platform, import_outcome, gpio_pc, SIMULATED_MODE, GPIO, PIN_STATES>>
    /\ UNCHANGED nonGpioVars

GpioInput ==
    /\ MockReady
    /\ \E pin \in GpioPins :
          gpio_call' = [op |-> "input", pin |-> pin, val |-> mock_input(GPIO_state, pin)]
    /\ UNCHANGED <<platform, import_outcome, gpio_pc, SIMULATED_MODE, GPIO, GPIO_state,
                   out_log, PIN_STATES>>
    /\ UNCHANGED nonGpioVars

GpioCleanup ==
    /\ MockReady
    /\ GPIO_state' = mock_cleanup(GPIO_state)
    /\ gpio_call' = [op |-> "cleanup", pin |-> 0, val |-> -1]
    /\ UNCHANGED <<platform, import_outcome, gpio_pc, SIMULATED_MODE, GPIO, out_log,
                   PIN_STATES>>
    /\ UNCHANGED nonGpioVars

NextGpio == GpioImport \/ GpioSetup \/ GpioOutput \/ GpioInput \/ GpioCleanup

\* ------------------------------------------------------- inputs of SpecStore
StoreKeys == {"13", "2,3", "5"}

StoreValues == {"Landing Gear Control", "Analog Input Module"}

Entries == [k : StoreKeys, v : StoreValues]

\* every str -> str dict of at most MaxLen entries over these keys and values
Mappings ==
    UNION {{m \in [1..n -> Entries] :
               \A i, j \in 1..n : m[i].k = m[j].k => i = j} : n \in 0..MaxLen}

\* a file somebody cut short: a proper prefix of a dump
Truncations(toks) == {SubSeq(toks, 1, n) : n \in 0..(Len(toks) - 1)}

InitFiles ==
    {NoFile, [kind |-> "unreadable", content |-> <<>>]}
    \cup {[kind |-> "ok", content |-> json_dump(m)] : m \in {m \in Mappings : Len(m) <= 1}}
    \cup {[kind |-> "ok", content |-> c] :
             c \in UNION {Truncations(json_dump(m)) : m \in {m \in Mappings : Len(m) <= 1}}}

\* ------------------------------------------------------- SpecStore
InitStore ==
    /\ file \in InitFiles
    /\ InitStoreVars
    /\ InitGpioVars
    /\ InitAppVars

\* the store after an operator ran on it
StoreBecomes(r) ==
    /\ file' = r.file
    /\ heap_import' = r.heap
    /\ cm' = r.cm
    /\ ret' = r.ret
    /\ errorShown' = r.err

\* the store as a call finds it: no dialog shown yet, no value returned yet
CallSt == [StoreSt EXCEPT !.err = FALSE, !.ret = EmptyDict]

\* a caller hands save_config a dict of its own
StoreSave ==
    \E m \in Mappings, wok \in BOOLEAN :
        /\ wok => CanWrite(file)
        /\ StoreBecomes(save_config(CallSt, OwnRef(m), wok))
        /\ lastOp' = IF wok THEN "save_config" ELSE "save_config failed"
        /\ lastSaved' = IF wok THEN [valid |-> TRUE, m |-> m] ELSE lastSaved
        /\ UNCHANGED nonStoreVars

StoreLoad ==
    /\ StoreBecomes(load_config(CallSt))
    /\ lastOp' = "load_config"
    /\ UNCHANGED lastSaved
    /\ UNCHANGED nonStoreVars

StoreClear ==
    \E wok \in BOOLEAN :
        /\ wok => CanWrite(file)
        /\ StoreBecomes(clear_config_on_startup(CallSt, wok))
        /\ lastOp' = IF wok THEN "clear_config" ELSE "clear_config failed"
        /\ lastSaved' = IF wok THEN [valid |-> TRUE, m |-> EmptyDict] ELSE lastSaved
        /\ UNCHANGED nonStoreVars

\* the environment: the file is deleted, loses its permissions or its tail
FileDamaged ==
    /\ file.kind = "ok"
    /\ \/ file' = NoFile
       \/ file' = [kind |-> "unreadable", content |-> <<>>]
       \/ /\ Len(file.content) > 0
          /\ file' = [file EXCEPT !.content = SubSeq(file.content, 1, Len(file.content) - 1)]
    /\ lastOp' = "file damaged"
    /\ lastSaved' = NoSave
    /\ UNCHANGED <<heap_import, cm, ret, errorShown>>
    /\ UNCHANGED nonStoreVars

NextStore == StoreSave \/ StoreLoad \/ StoreClear \/ FileDamaged

\* ------------------------------------------------------- configuration editor
Variants == {"V3.0", "main_window", "gui"}

\* the dict the name config_data denotes in the UI code: V3.0.py reads its own
\* module global; the other programs read the object they imported from
\* config_manager
UiRef(v, st) == IF v = "V3.0" THEN st.cm ELSE ImportRef

UiData(v, st) == Deref(st, UiRef(v, st))

\* an in-place change of the dict behind the reference r
Mutate(st, r, d) ==
    IF r.ref = "import" THEN [st EXCEPT !.heap = d] ELSE [st EXCEPT !.cm = OwnRef(d)]

\* the editor's mapping in the current state
Config == UiData(variant, StoreSt)

\* all_gpio_pins = [5, 6, 12, 16, 20, 21, 25]
all_gpio_pins == <<5, 6, 12, 16, 20, 21, 25>>

\* the pin of all_gpio_pins the operator picks in the pin dropdown
PoolPins == {all_gpio_pins[1]}

PinNumbers == {2, 3, 4, 5, 6, 12, 13, 16, 19, 20, 21, 22, 23, 24, 25, 26}

\* p.isdigit() for a key of the mapping
isdigit(k) == k \in {str(p) : p \in PinNumbers}

\* int(pin) for a key that is a number
int(k) == CHOOSE p \in PinNumbers : str(p) = k

\* a faulty variant of available_pins: the whole pool, whatever is assigned
available_pins_unfiltered(d) ==
    {str(all_gpio_pins[i]) : i \in 1..Len(all_gpio_pins)}

\* available_pins, as strings: the pins of all_gpio_pins no numeric key uses
available_pins(d) ==
    {str(all_gpio_pins[i]) : i \in {j \in 1..Len(all_gpio_pins) :
        all_gpio_pins[j] \notin {int(k) : k \in {x \in DictKeys(d) : isdigit(x)}}}}

\* the entries of predefined_functions that have a branch of their own in
\* save_assignment or create_gpio_control, and one that has none
predefined_functions(v) ==
    IF v = "main_window"
    THEN {"Analog Input Module", "Mic Control", "Nav Light Toggle",
          "Landing Gear Control", "Relay Control"}
    ELSE {"Mic Control", "Nav Light Toggle", "Landing Gear Control", "Relay Control"}

\* predefined_function_pins.get(function), "" when the function has no fixed pin
predefined_function_pins(v, function) ==
    CASE function = "Landing Gear Control" -> str(NOSE_GEAR_PIN)
      [] function = "Nav Light Toggle" -> str(LEFT_NAV_PIN)
      [] function = "Mic Control" -> str(MIC_CONTROL_PIN)
      [] function = "Analog Input Module" /\ v = "main_window" -> ANALOG_INPUT_MODULE_ID
      [] OTHER -> ""

\* on_function_selected: a function with a fixed pin sets the pin and locks the
\* dropdown; any other function only unlocks the dropdown
on_function_selected(v, w, function) ==
    IF predefined_function_pins(v, function) # ""
    THEN [w EXCEPT !.function_var = function,
                   !.pin_var = predefined_function_pins(v, function),
                   !.dropdown = "disabled"]
    ELSE [w EXCEPT !.function_var = function, !.dropdown = "readonly"]

\* faulty variant of assign: every function is stored under the selected pin only
assign_single(v, d, pin, function) == DictSet(d, pin, function)

\* the entries save_assignment writes into config_data
assign(v, d, pin, function) ==
    IF function = "Landing Gear Control"
    THEN DictSet(DictSet(DictSet(d, str(NOSE_GEAR_PIN), function),
                         str(LEFT_GEAR_PIN), "Landing Gear Control (Left)"),
                 str(RIGHT_GEAR_PIN), "Landing Gear Control (Right)")
    ELSE IF function = "Nav Light Toggle"
    THEN DictSet(DictSet(DictSet(d, str(LEFT_NAV_PIN), function),
                         str(RIGHT_NAV_PIN), "Nav Light Toggle (Right)"),
                 str(TAIL_NAV_PIN), "Nav Light Toggle (Tail)")
    ELSE IF function = "Analog Input Module" /\ v = "main_window"
    THEN DictSet(d, ANALOG_INPUT_MODULE_ID, function)
    ELSE DictSet(d, pin, function)

\* utils.is_function_configured
is_function_configured(d, function_name) == function_name \in DictValues(d)

\* "Landing Gear" in function or "Nav Light" in function
IsIndicatorFunction(function) ==
    function \in {"Landing Gear Control", "Landing Gear Control (Left)",
                  "Landing Gear Control (Right)", "Nav Light Toggle",
                  "Nav Light Toggle (Right)", "Nav Light Toggle (Tail)"}

\* ------------------------------------------------------- indicator loop
\* get_pin_state(pin): app.simulated_inputs in simulated mode, GPIO.input on
\* hardware
get_pin_state(sim, si, hw, pin) == IF sim THEN si[pin] ELSE hw[pin]

\* V3.0.py and gui.py: fill="lime" if self.get_pin_state(PIN) == 0 else "red", and
\* the three nav lines with "red", "lime" and "white" against "gray"
fill_V3(name, state) ==
    CASE name \in GearNames -> IF state = 0 THEN "lime" ELSE "red"
      [] name = "nav_left" -> IF state = 0 THEN "red" ELSE "gray"
      [] name = "nav_right" -> IF state = 0 THEN "lime" ELSE "gray"
      [] name = "nav_tail" -> IF state = 0 THEN "white" ELSE "gray"

\* control_panel.py: "if nose_state: green else: red" and
\* "if left_nav: yellow else: gray"
fill_control_panel(name, state) ==
    IF name \in GearNames
    THEN (IF state # 0 THEN "green" ELSE "red")
    ELSE (IF state # 0 THEN "yellow" ELSE "gray")

fill_of(v, name, state) ==
    IF v = "main_window" THEN fill_control_panel(name, state) ELSE fill_V3(name, state)

\* update_indicators repaints the indicator: control_panel.py only inside
\* "if is_function_configured(config_data, ...)", V3.0.py and gui.py always
repaints(v, d, name) ==
    IF v # "main_window" THEN TRUE
    ELSE IF name \in GearNames THEN is_function_configured(d, "Landing Gear Control")
    ELSE is_function_configured(d, "Nav Light Toggle")

\* the itemconfig calls of update_indicators from the i-th indicator on; fail
\* names the indicator whose itemconfig call raises, "none" when no call does
RECURSIVE PaintFrom(_, _, _, _, _, _)
PaintFrom(v, sim, d, a, fail, i) ==
    IF i > Len(IndicatorNames) THEN [a EXCEPT !.tend = "normal"]
    ELSE LET name == IndicatorNames[i]
         IN  IF ~repaints(v, d, name) THEN PaintFrom(v, sim, d, a, fail, i + 1)
             ELSE IF fail = name THEN [a EXCEPT !.tend = "raised"]
             ELSE PaintFrom(v, sim, d,
                      [a EXCEPT !.fills[name] =
                          fill_of(v, name, get_pin_state(sim, a.si, a.hw, indicator_pin(name)))],
                      fail, i + 1)

\* a faulty variant of the rescheduling: the except block only logs, so a tick
\* that raised leaves no callback behind
schedule_next_try_only(a) ==
    IF a.tend = "raised" THEN a
    ELSE [a EXCEPT !.timers.fast = a.timers.fast + 1]

\* root.after(200, self.update_indicators) at the end of the try block,
\* root.after(1000, self.update_indicators) in the except block
schedule_next(a) ==
    IF a.tend = "raised"
    THEN [a EXCEPT !.timers.slow = a.timers.slow + 1]
    ELSE [a EXCEPT !.timers.fast = a.timers.fast + 1]

\* update_indicators() without the mic poll of V3.0.py and gui.py
update_indicators(v, sim, d, a, fail) == schedule_next(PaintFrom(v, sim, d, a, fail, 1))

\* update_overlay_status(): control_panel.py ends with self.update_indicators(),
\* V3.0.py and gui.py do not call it
update_overlay_status(v, sim, d, a) ==
    IF v = "main_window" THEN update_indicators(v, sim, d, a, "none") ELSE a

\* setup_control_panel(): update_overlay_status(), then update_indicators();
\* gui.py never starts the loop
setup_control_panel(v, sim, d, a) ==
    IF v = "gui" THEN a
    ELSE update_indicators(v, sim, d, update_overlay_status(v, sim, d, a), "none")

\* start_mic_check(): the new value of mic_check_running
start_mic_check(sim, d, mcr) ==
    IF ~sim /\ is_function_configured(d, "Mic Control") /\ ~mcr THEN TRUE ELSE mcr

\* what building the controls changes: the simulated register with the log of
\* its output calls and its last call, mic_check_running, and whether an error
\* dialog was shown
Side(state, log, call, mcr) ==
    [state |-> state, log |-> log, call |-> call, mcr |-> mcr, err |-> FALSE]

\* and the state tracking of the pins, PIN_STATES
Tracking(pins) == [pins |-> pins]

\* what the control panel adds to it: the pin readings, the indicator fills,
\* the pending update_indicators callbacks and how the last execution ended
Panel(si, hw, fills, timers, tend) ==
    [si |-> si, hw |-> hw, fills |-> fills, timers |-> timers, tend |-> tend]

\* create_gpio_control(pin, function), d being config_data
create_gpio_control(v, sim, d, a, k, function) ==
    IF v = "main_window" /\ function = "Analog Input Module"
    THEN a
    ELSE IF ~isdigit(k)
    THEN [a EXCEPT !.err = TRUE]
    ELSE LET pin == int(k)
             a1 == IF ~sim THEN a
                   ELSE [a EXCEPT !.state = mock_setup(a.state, pin),
                                  !.call = [op |-> "setup", pin |-> pin, val |-> -1]]
             a2 == IF ~sim
                      \/ (function = "Mic Control" /\ pin = MIC_CONTROL_PIN)
                      \/ IsIndicatorFunction(function)
                   THEN a1
                   ELSE [a1 EXCEPT !.state = mock_output(a1.state, pin, 0),
                                   !.log = Append(a1.log, <<pin, 0>>),
                                   !.call = [op |-> "output", pin |-> pin, val |-> -1]]
             a3 == [a2 EXCEPT !.pins = DictSet(@, pin, 0)]
         IN  IF function = "Mic Control" /\ ~sim
             THEN IF v = "main_window"
                  THEN [a3 EXCEPT !.err = TRUE]
                  ELSE [a3 EXCEPT !.mcr = start_mic_check(sim, d, a3.mcr)]
             ELSE a3

RECURSIVE ControlsFrom(_, _, _, _, _)
ControlsFrom(v, sim, d, a, i) ==
    IF i > Len(d) THEN a
    ELSE ControlsFrom(v, sim, d, create_gpio_control(v, sim, d, a, d[i].k, d[i].v), i + 1)

\* load_gpio_controls(): one create_gpio_control per entry of config_data
load_gpio_controls(v, sim, d, a) == ControlsFrom(v, sim, d, a, 1)

\* an operation's result: the store, the side effects above, the configuration
\* window and how the operation ended
Result(st, a, w, end) == [st |-> [st EXCEPT !.err = st.err \/ a.err], a |-> a, w |-> w, end |-> end]

\* save_assignment() of the configuration window w
save_assignment(v, sim, st, a, w, wok) ==
    IF w.pin_var = "" \/ w.function_var = ""
    THEN Result(st, a, w, "warned")
    ELSE LET st1 == Mutate(st, UiRef(v, st),
                           assign(v, UiData(v, st), w.pin_var, w.function_var))
         IN  IF w.function_var = "Mic Control" /\ ~sim /\ v = "main_window"
             THEN Result(st1, a, w, "raised")
             ELSE LET a1 == IF w.function_var = "Mic Control" /\ ~sim
                            THEN [a EXCEPT !.mcr = start_mic_check(sim, UiData(v, st1), a.mcr)]
                            ELSE a
                      st2 == save_config(st1, UiRef(v, st1), wok)
                      a2 == load_gpio_controls(v, sim, UiData(v, st2), a1)
                  IN  Result(st2, update_overlay_status(v, sim, UiData(v, st2), a2), NoWindow,
                             IF wok THEN "done" ELSE "failed")

\* delete_gpio(pin), k being str(pin), a key of config_data
delete_gpio(v, sim, st, a, k, wok) ==
    LET a1 == IF v # "main_window" /\ DictGet(UiData(v, st), k) = "Mic Control"
              THEN [a EXCEPT !.mcr = FALSE]
              ELSE IF v = "main_window" /\ isdigit(k)
              THEN [a EXCEPT !.pins = DictDel(@, int(k))]
              ELSE a
        st1 == Mutate(st, UiRef(v, st), DictDel(UiData(v, st), k))
        st2 == save_config(st1, UiRef(v, st1), wok)
        a2 == load_gpio_controls(v, sim, UiData(v, st2), a1)
    IN  Result(st2, update_overlay_status(v, sim, UiData(v, st2), a2), NoWindow,
               IF wok THEN "done" ELSE "failed")

\* clear_all_configs(), the operator having confirmed
clear_all_configs(v, sim, st, a, wok) ==
    IF v = "main_window"
    THEN LET st2 == load_config(clear_config_on_startup(st, wok))
             a2 == load_gpio_controls(v, sim, UiData(v, st2),
                                      [a EXCEPT !.pins = EmptyDict])
         IN  Result(st2, update_overlay_status(v, sim, UiData(v, st2), a2), NoWindow,
                    IF wok THEN "done" ELSE "failed")
    ELSE LET st1 == Mutate(st, UiRef(v, st), EmptyDict)
             st2 == save_config(st1, UiRef(v, st1), wok)
             a2 == load_gpio_controls(v, sim, UiData(v, st2), [a EXCEPT !.mcr = FALSE])
         IN  Result(st2, update_overlay_status(v, sim, UiData(v, st2), a2), NoWindow,
                    IF wok THEN "done" ELSE "failed")

\* gpio_handler.COAX_SIGNAL_PIN
COAX_SIGNAL_PIN == 2

\* gpio_handler.MONITORING_PINS
MONITORING_PINS == <<NOSE_GEAR_PIN, LEFT_GEAR_PIN, RIGHT_GEAR_PIN, LEFT_NAV_PIN,
                     RIGHT_NAV_PIN, TAIL_NAV_PIN, COAX_SIGNAL_PIN, MIC_CONTROL_PIN>>

RECURSIVE TrackFrom(_, _)
TrackFrom(pins, i) ==
    IF i > Len(MONITORING_PINS) THEN pins
    ELSE TrackFrom(DictSet(pins, MONITORING_PINS[i], 1), i + 1)

\* initialize_gpio(): every monitored pin is set up as an input, which leaves
\* the simulated register as it is, and tracked as HIGH
initialize_gpio(a) == [a EXCEPT !.pins = TrackFrom(@, 1)]

\* the start-up code up to the first display of the controls and the panel
\* (initialize_gpio, setup_gpio_area, then setup_control_panel); keep is
\* "--keep-config" in sys.argv
run_app(v, sim, st, a, keep, wok) ==
    LET st1 == IF v = "main_window" /\ ~keep THEN clear_config_on_startup(st, wok) ELSE st
        st2 == load_config(st1)
        a2 == load_gpio_controls(v, sim, UiData(v, st2), initialize_gpio(a))
    IN  Result(st2, setup_control_panel(v, sim, UiData(v, st2), a2), NoWindow, "done")

\* ------------------------------------------------------- SpecEditor
\* the configuration files a session can find at start
EditorFiles ==
    {NoFile,
     [kind |-> "ok", content |-> json_dump(<<[k |-> "4", v |-> "Mic Control"]>>)]}

\* gpio_handler.py has been imported: on a Raspberry Pi, or on a host without
\* the driver
InitHost ==
    /\ platform = "linux"
    /\ import_outcome \in {"ok", "ImportError"}
    /\ gpio_pc = gpio_fallback(platform, import_outcome).pc
    /\ SIMULATED_MODE = gpio_fallback(platform, import_outcome).sim
    /\ GPIO = gpio_fallback(platform, import_outcome).gpio
    /\ GPIO_state = EmptyDict
    /\ gpio_call = NoCall
    /\ out_log = <<>>

InitSession(files) ==
    /\ file \in files
    /\ InitStoreVars
    /\ InitHost
    /\ adc_ok = TRUE
    /\ variant \in Variants
    /\ keep_config \in BOOLEAN
    /\ variant # "main_window" => ~keep_config
    /\ app_pc = "start"
    /\ config_window = NoWindow
    /\ ops = 0
    /\ keyed_up = FALSE
    /\ audio_running = FALSE
    /\ mic_check_running = FALSE
    /\ pin_monitoring = FALSE
    /\ PIN_STATES = EmptyDict
    /\ InitMicVars
    /\ InitSamplerVars
    /\ InitPanelVars

InitEditor == InitSession(EditorFiles)

\* the side effects so far, as an operation finds them
SideNow ==
    Side(GPIO_state, out_log, gpio_call, mic_check_running)
        @@ Panel(simulated_inputs, gpio_input, indicators, indicator_timers, tick_end)
        @@ Tracking(PIN_STATES)

\* what no operation of the editor changes
editorFrame == <<platform, import_outcome, gpio_pc, SIMULATED_MODE, GPIO, variant,
                 keep_config, keyed_up, audio_running, micVars, simulated_inputs,
                 gpio_input, samplerRest>>

\* the panel after an operation left it as a
PanelBecomes(a) ==
    /\ indicators' = a.fills
    /\ indicator_timers' = a.timers
    /\ tick_end' = a.tend

\* the state after an operation with result r
EditorBecomes(r) ==
    /\ StoreBecomes(r.st)
    /\ GPIO_state' = r.a.state
    /\ out_log' = r.a.log
    /\ PIN_STATES' = r.a.pins
    /\ gpio_call' = r.a.call
    /\ mic_check_running' = r.a.mcr
    /\ PanelBecomes(r.a)
    /\ config_window' = r.w
    /\ lastSaved' = IF r.end = "done"
                    THEN [valid |-> TRUE, m |-> json_load(r.st.file.content).val]
                    ELSE lastSaved
    /\ UNCHANGED <<editorFrame, pin_threads>>

Startup ==
    /\ app_pc = "start"
    /\ \E wok \in BOOLEAN :
          /\ wok => CanWrite(file)
          /\ (variant # "main_window" \/ keep_config) => wok
          /\ LET r == run_app(variant, SIMULATED_MODE, CallSt, SideNow, keep_config, wok)
             IN  /\ StoreBecomes(r.st)
                 /\ GPIO_state' = r.a.state
                 /\ out_log' = r.a.log
                 /\ PIN_STATES' = r.a.pins
                 /\ gpio_call' = r.a.call
                 /\ mic_check_running' = r.a.mcr
                 /\ PanelBecomes(r.a)
    /\ app_pc' = "running"
    /\ pin_monitoring' = (variant = "main_window" /\ ~SIMULATED_MODE)
    /\ pin_threads' = PinThreadsAt(variant = "main_window" /\ ~SIMULATED_MODE)
    /\ lastOp' = "run_app"
    /\ UNCHANGED <<lastSaved, config_window, ops>>
    /\ UNCHANGED editorFrame

OpenConfigWindow ==
    /\ app_pc = "running" /\ variant # "gui"
    /\ ~config_window.open
    /\ config_window' = [NoWindow EXCEPT !.open = TRUE, !.pins = available_pins(Config)]
    /\ UNCHANGED <<storeVars, gpioVars, appVars, micVars, panelVars, samplerVars>>
    /\ UNCHANGED <<variant, keep_config, app_pc, ops>>

\* the operator picks a pin in the pin dropdown
SelectPin ==
    /\ config_window.open /\ config_window.dropdown = "readonly"
    /\ \E p \in config_window.pins \cap {str(q) : q \in PoolPins} :
          config_window' = [config_window EXCEPT !.pin_var = p]
    /\ UNCHANGED <<storeVars, gpioVars, appVars, micVars, panelVars, samplerVars>>
    /\ UNCHANGED <<variant, keep_config, app_pc, ops>>

\* the operator picks a function in the function dropdown
SelectFunction ==
    /\ config_window.open
    /\ \E f \in predefined_functions(variant) :
          config_window' = on_function_selected(variant, config_window, f)
    /\ UNCHANGED <<storeVars, gpioVars, appVars, micVars, panelVars, samplerVars>>
    /\ UNCHANGED <<variant, keep_config, app_pc, ops>>

\* the Save button of the configuration window
SaveAssignment ==
    /\ config_window.open /\ ops < MaxOps
    /\ \E wok \in BOOLEAN :
          /\ wok => CanWrite(file)
          /\ LET r == save_assignment(variant, SIMULATED_MODE, CallSt, SideNow,
                                      config_window, wok)
             IN  /\ EditorBecomes(r)
                 /\ lastOp' = "save_assignment " \o r.end
    /\ ops' = ops + 1
    /\ UNCHANGED <<app_pc, pin_monitoring>>

\* the Delete button of the control of key k
DeleteGpio ==
    /\ app_pc = "running" /\ ~config_window.open /\ ops < MaxOps
    /\ \E k \in DictKeys(Config), wok \in BOOLEAN :
          /\ isdigit(k) \/ DictGet(Config, k) = "Analog Input Module"
          /\ wok => CanWrite(file)
          /\ LET r == delete_gpio(variant, SIMULATED_MODE, CallSt, SideNow, k, wok)
             IN  /\ EditorBecomes(r)
                 /\ lastOp' = "delete_gpio " \o r.end
    /\ ops' = ops + 1
    /\ UNCHANGED <<app_pc, pin_monitoring>>

\* the Clear All button of the configuration window, confirmed
ClearAllConfigs ==
    /\ config_window.open /\ ops < MaxOps
    /\ \E wok \in BOOLEAN :
          /\ wok => CanWrite(file)
          /\ LET r == clear_all_configs(variant, SIMULATED_MODE, CallSt, SideNow, wok)
             IN  /\ EditorBecomes(r)
                 /\ lastOp' = "clear_all_configs " \o r.end
    /\ ops' = ops + 1
    /\ UNCHANGED <<app_pc, pin_monitoring>>

NextEditor ==
    \/ Startup \/ OpenConfigWindow \/ SelectPin \/ SelectFunction
    \/ SaveAssignment \/ DeleteGpio \/ ClearAllConfigs

\* ------------------------------------------------------- mic push-to-talk
\* utils.is_mic_and_analog_configured
is_mic_and_analog_configured(d) ==
    /\ is_function_configured(d, "Mic Control")
    /\ is_function_configured(d, "Analog Input Module")

\* the guard of the mic handlers: main_window.py asks for the mic and the
\* analog module, V3.0.py and gui.py for the mic only
mic_configured(v, d) ==
    IF v = "main_window"
    THEN is_mic_and_analog_configured(d)
    ELSE is_function_configured(d, "Mic Control")

\* faulty variant of mic_edge: the level alone decides, keyed_up is not consulted
mic_level(pin_state, keyed) == IF pin_state = 0 THEN "activate" ELSE "deactivate"

\* what a poll does with the level it read:
\*   if pin_state == 0 and not self.keyed_up ... elif pin_state == 1 and self.keyed_up
mic_edge(pin_state, keyed) ==
    IF pin_state = 0 /\ ~keyed THEN "activate"
    ELSE IF pin_state = 1 /\ keyed THEN "deactivate"
    ELSE "none"

\* start_audio_monitor() on m = [running, label]: main_window.py returns when
\* the sampler runs already; on hardware a failing ADC leaves it stopped
start_audio_monitor(v, sim, adc, m) ==
    IF v = "main_window" /\ m.running THEN m
    ELSE IF ~sim /\ ~adc THEN [m EXCEPT !.label = "AUDIO ERROR"]
    ELSE [m EXCEPT !.running = TRUE]

\* stop_audio_monitor()
stop_audio_monitor(m) == [m EXCEPT !.running = FALSE]

AudioNow == [running |-> audio_running, label |-> key_label]

\* what the mic handlers leave alone
micFrame == <<storeVars, gpioVars, editVars, mic_check_running, pin_monitoring, adc_ok,
              simulated_inputs, gpio_input, samplerVars>>

\* what update_indicators writes on the panel
panelOut == <<indicators, indicator_timers, tick_end>>

\* the environment: the push-to-talk switch on pin 4 is pressed or released
MicPinChange ==
    /\ app_pc = "running" /\ variant # "gui"
    /\ pin_changes < MaxChanges
    /\ mic_pin' = 1 - mic_pin
    /\ pin_changes' = pin_changes + 1
    /\ ticks' = 0 /\ poll_on' = 0 /\ poll_off' = 0
    /\ UNCHANGED <<keyed_up, audio_running, key_label, after_queue, keys_ever, k_held>>
    /\ UNCHANGED <<micFrame, panelOut>>

\* V3.0.py: a pending update_indicators callback runs; it repaints the
\* indicators, polls the mic pin and schedules the next execution. fails holds
\* the indicators whose itemconfig call can raise, and "none"
RunUpdateIndicators(fails) ==
    /\ app_pc = "running" /\ variant = "V3.0"
    /\ ticks < MaxTicks
    /\ \E kind \in {"fast", "slow"}, fail \in fails :
          /\ indicator_timers[kind] > 0
          /\ PanelBecomes(update_indicators(variant, SIMULATED_MODE, Config,
                              [SideNow EXCEPT !.timers[kind] = @ - 1], fail))
    /\ LET polled == tick_end' = "normal" /\ ~SIMULATED_MODE /\ mic_check_running
                     /\ is_function_configured(Config, "Mic Control")
           e == IF polled THEN mic_edge(mic_pin, keyed_up) ELSE "none"
           m == IF e = "activate"
                THEN start_audio_monitor(variant, SIMULATED_MODE, adc_ok,
                                         [AudioNow EXCEPT !.label = "KEY UP"])
                ELSE IF e = "deactivate"
                THEN stop_audio_monitor([AudioNow EXCEPT !.label = "STAND-BY"])
                ELSE AudioNow
       IN  /\ keyed_up' = IF e = "activate" THEN TRUE
                          ELSE IF e = "deactivate" THEN FALSE ELSE keyed_up
           /\ audio_running' = m.running
           /\ key_label' = m.label
           /\ poll_on' = IF e = "activate" THEN poll_on + 1 ELSE poll_on
           /\ poll_off' = IF e = "deactivate" THEN poll_off + 1 ELSE poll_off
    /\ ticks' = ticks + 1
    /\ UNCHANGED <<mic_pin, after_queue, pin_changes, keys_ever, k_held>>
    /\ UNCHANGED micFrame

\* the same, every widget call succeeding
UpdateIndicators == RunUpdateIndicators({"none"})

\* main_window.py pin_monitor_thread, one turn of its loop: keyed_up is set in
\* the thread, the label and the sampler are left to the UI thread
PinMonitorTick ==
    /\ app_pc = "running" /\ variant = "main_window" /\ pin_monitoring
    /\ ticks < MaxTicks
    /\ LET e == IF is_mic_and_analog_configured(Config)
                THEN mic_edge(mic_pin, keyed_up) ELSE "none"
       IN  /\ keyed_up' = IF e = "activate" THEN TRUE
                          ELSE IF e = "deactivate" THEN FALSE ELSE keyed_up
           /\ after_queue' = IF e = "activate"
                             THEN after_queue \o <<"KEY UP", "start_audio_monitor">>
                             ELSE IF e = "deactivate"
                             THEN after_queue \o <<"STAND-BY", "stop_audio_monitor">>
                             ELSE after_queue
           /\ poll_on' = IF e = "activate" THEN poll_on + 1 ELSE poll_on
           /\ poll_off' = IF e = "deactivate" THEN poll_off + 1 ELSE poll_off
    /\ ticks' = ticks + 1
    /\ UNCHANGED <<audio_running, key_label, mic_pin, pin_changes, keys_ever, k_held>>
    /\ UNCHANGED <<micFrame, panelOut>>

\* the UI thread runs the oldest root.after(0, ...) callback
AfterCallback ==
    /\ after_queue # <<>>
    /\ LET c == Head(after_queue)
           m == IF c = "start_audio_monitor"
                THEN start_audio_monitor(variant, SIMULATED_MODE, adc_ok, AudioNow)
                ELSE IF c = "stop_audio_monitor" THEN stop_audio_monitor(AudioNow)
                ELSE [AudioNow EXCEPT !.label = c]
       IN  /\ audio_running' = m.running
           /\ key_label' = m.label
    /\ after_queue' = Tail(after_queue)
    /\ UNCHANGED <<keyed_up, mic_pin, ticks, poll_on, poll_off, pin_changes, keys_ever, k_held>>
    /\ UNCHANGED <<micFrame, panelOut>>

\* <KeyPress-k>
KeyDown ==
    /\ app_pc = "running" /\ variant # "gui"
    /\ ~k_held
    /\ k_held' = TRUE
    /\ LET act == ~keyed_up /\ mic_configured(variant, Config)
           m == IF act
                THEN start_audio_monitor(variant, SIMULATED_MODE, adc_ok,
                                         [AudioNow EXCEPT !.label = "KEY UP"])
                ELSE AudioNow
       IN  /\ keyed_up' = (act \/ keyed_up)
           /\ audio_running' = m.running
           /\ key_label' = m.label
    /\ keys_ever' = TRUE
    /\ UNCHANGED <<mic_pin, after_queue, ticks, poll_on, poll_off, pin_changes>>
    /\ UNCHANGED <<micFrame, panelOut>>

\* <KeyRelease-k>
KeyUp ==
    /\ app_pc = "running" /\ variant # "gui"
    /\ k_held
    /\ k_held' = FALSE
    /\ LET act == keyed_up /\ mic_configured(variant, Config)
           m == IF act THEN stop_audio_monitor([AudioNow EXCEPT !.label = "STAND-BY"])
                ELSE AudioNow
       IN  /\ keyed_up' = (keyed_up /\ ~act)
           /\ audio_running' = m.running
           /\ key_label' = m.label
    /\ keys_ever' = TRUE
    /\ UNCHANGED <<mic_pin, after_queue, ticks, poll_on, poll_off, pin_changes>>
    /\ UNCHANGED <<micFrame, panelOut>>

NextMic ==
    \/ MicPinChange \/ UpdateIndicators \/ PinMonitorTick \/ AfterCallback
    \/ KeyDown \/ KeyUp

\* ------------------------------------------------------- SpecMic
\* the store and the side effects before the program starts, no file on disk
FreshStore == [file |-> NoFile, heap |-> EmptyDict, cm |-> ImportRef,
               ret |-> EmptyDict, err |-> FALSE]

FreshSide ==
    Side(EmptyDict, <<>>, NoCall, FALSE)
        @@ Panel([p \in IndicatorPins |-> 1], [p \in IndicatorPins |-> 1],
                 draw_indicators, NoTimers, "none")
        @@ Tracking(EmptyDict)

\* the operator opens the configuration window, selects fs[i] and presses Save,
\* for i, i + 1, ... in turn; every write succeeds
RECURSIVE Assignments(_, _, _, _, _)
Assignments(v, sim, r, fs, i) ==
    IF i > Len(fs) THEN r
    ELSE Assignments(v, sim,
             save_assignment(v, sim, [r.st EXCEPT !.err = FALSE, !.ret = EmptyDict],
                             [r.a EXCEPT !.err = FALSE],
                             on_function_selected(v, [NoWindow EXCEPT !.open = TRUE], fs[i]),
                             TRUE),
             fs, i + 1)

\* a session that started without --keep-config and assigned the functions fs
SessionAfter(v, sim, fs) ==
    Assignments(v, sim, run_app(v, sim, FreshStore, FreshSide, FALSE, TRUE), fs, 1)

\* the functions the mic handlers ask for, in the orders they can be assigned
MicSetups(v) ==
    LET F == {"Mic Control", "Analog Input Module"} \cap predefined_functions(v)
    IN  {<<>>} \cup {<<f>> : f \in F} \cup {<<f, g>> : <<f, g>> \in {x \in F \X F : x[1] # x[2]}}

InitMic ==
    /\ InitHost
    /\ adc_ok \in BOOLEAN
    /\ SIMULATED_MODE => adc_ok
    /\ variant \in {"V3.0", "main_window"}
    /\ keep_config = FALSE
    /\ app_pc = "running"
    /\ \E fs \in MicSetups(variant) :
          LET r == SessionAfter(variant, SIMULATED_MODE, fs)
          IN  /\ file = r.st.file
              /\ heap_import = r.st.heap
              /\ cm = r.st.cm
              /\ ret = r.st.ret
              /\ errorShown = r.st.err
              /\ lastOp = IF fs = <<>> THEN "run_app" ELSE "save_assignment " \o r.end
              /\ lastSaved = IF r.st.file.kind = "ok"
                             THEN [valid |-> TRUE, m |-> json_load(r.st.file.content).val]
                             ELSE NoSave
              /\ config_window = r.w
              /\ PIN_STATES = r.a.pins
              /\ ops = Len(fs)
              /\ mic_check_running = r.a.mcr
              /\ indicators = r.a.fills
              /\ indicator_timers = r.a.timers
              /\ tick_end = r.a.tend
    /\ simulated_inputs = [p \in IndicatorPins |-> 1]
    /\ gpio_input = [p \in IndicatorPins |-> 1]
    /\ keyed_up = FALSE
    /\ audio_running = FALSE
    /\ pin_monitoring = (variant = "main_window" /\ ~SIMULATED_MODE)
    /\ InitMicVars
    /\ InitSamplerVars

\* ------------------------------------------------------- SpecPanel
\* the indicators whose itemconfig call can raise in SpecPanel, and "none"
FailPoints == {"none", "nose", "right", "nav_left", "nav_tail"}

\* what the indicator loop and the pin changes leave alone
panelFrame == <<storeVars, gpioRegs, editVars, appVars, mic_pin, adc_ok, key_label,
                after_queue, poll_on, poll_off, keys_ever, k_held, samplerVars>>

\* V3.0.py: a pending update_indicators callback runs, widget calls can raise
UpdateIndicatorsV3 == RunUpdateIndicators(FailPoints)

\* main_window.py: a pending update_indicators callback of control_panel.py runs
UpdateIndicatorsPanel ==
    /\ app_pc = "running" /\ variant = "main_window"
    /\ ticks < MaxTicks
    /\ \E kind \in {"fast", "slow"}, fail \in FailPoints :
          /\ indicator_timers[kind] > 0
          /\ PanelBecomes(update_indicators(variant, SIMULATED_MODE, Config,
                              [SideNow EXCEPT !.timers[kind] = @ - 1], fail))
    /\ ticks' = ticks + 1
    /\ UNCHANGED <<simulated_inputs, gpio_input, pin_changes, PIN_STATES>>
    /\ UNCHANGED panelFrame

\* toggle_sim_pin(pin): the operator flips a simulated input
ToggleSimPin ==
    /\ app_pc = "running" /\ SIMULATED_MODE
    /\ pin_changes < MaxChanges
    /\ \E pin \in IndicatorPins :
          /\ simulated_inputs' = [simulated_inputs EXCEPT ![pin] = IF @ # 0 THEN 0 ELSE 1]
          /\ PIN_STATES' = DictSet(PIN_STATES, pin, simulated_inputs'[pin])
    /\ pin_changes' = pin_changes + 1
    /\ ticks' = 0
    /\ UNCHANGED <<gpio_input, panelOut>>
    /\ UNCHANGED panelFrame

\* the environment: the level of a monitored pin changes on the hardware
GpioInputChange ==
    /\ app_pc = "running" /\ ~SIMULATED_MODE
    /\ pin_changes < MaxChanges
    /\ \E pin \in IndicatorPins :
          gpio_input' = [gpio_input EXCEPT ![pin] = 1 - @]
    /\ pin_changes' = pin_changes + 1
    /\ ticks' = 0
    /\ UNCHANGED <<simulated_inputs, panelOut, PIN_STATES>>
    /\ UNCHANGED panelFrame

NextPanel == UpdateIndicatorsV3 \/ UpdateIndicatorsPanel \/ ToggleSimPin \/ GpioInputChange

\* the functions the indicators ask for, in the orders they can be assigned
PanelSetups ==
    {<<>>, <<"Landing Gear Control">>, <<"Nav Light Toggle">>,
     <<"Landing Gear Control", "Nav Light Toggle">>,
     <<"Nav Light Toggle", "Landing Gear Control">>}

\* a running session on either kind of host after the functions of one of
\* setups were assigned, no pin touched yet
RunningSession(setups) ==
    /\ InitHost
    /\ adc_ok = TRUE
    /\ variant \in {"V3.0", "main_window"}
    /\ keep_config = FALSE
    /\ app_pc = "running"
    /\ \E fs \in setups :
          LET r == SessionAfter(variant, SIMULATED_MODE, fs)
          IN  /\ file = r.st.file
              /\ heap_import = r.st.heap
              /\ cm = r.st.cm
              /\ ret = r.st.ret
              /\ errorShown = r.st.err
              /\ lastOp = IF fs = <<>> THEN "run_app" ELSE "save_assignment " \o r.end
              /\ lastSaved = IF r.st.file.kind = "ok"
                             THEN [valid |-> TRUE, m |-> json_load(r.st.file.content).val]
                             ELSE NoSave
              /\ config_window = r.w
              /\ PIN_STATES = r.a.pins
              /\ ops = Len(fs)
              /\ mic_check_running = r.a.mcr
              /\ indicators = r.a.fills
              /\ indicator_timers = r.a.timers
              /\ tick_end = r.a.tend
    /\ simulated_inputs = [p \in IndicatorPins |-> 1]
    /\ gpio_input = [p \in IndicatorPins |-> 1]
    /\ keyed_up = FALSE
    /\ audio_running = FALSE
    /\ pin_monitoring = (variant = "main_window" /\ ~SIMULATED_MODE)
    /\ InitMicVars
    /\ InitSamplerVars

\* some of the indicator functions assigned
InitPanel == RunningSession(PanelSetups)

\* ------------------------------------------------------- SpecThreads
\* start_audio_monitor() gets as far as Thread(...).start(): main_window.py
\* returns before when the sampler runs already, and on hardware a failing ADC
\* raises before
audio_spawns(v, sim, adc, m) ==
    /\ ~(v = "main_window" /\ m.running)
    /\ sim \/ adc

\* start_analog_monitoring() gets as far as Thread(...).start()
analog_spawns(monitoring) == ~monitoring

\* what the start and stop operations and the threads leave alone
threadFrame == <<storeVars, gpioVars, editVars, keyed_up, mic_check_running, mic_pin,
                 adc_ok, after_queue, ticks, poll_on, poll_off, pin_changes, keys_ever,
                 k_held, panelVars, simulation_enabled, gauge_animation>>

\* start_audio_monitor(), called by the key handler, by the mic poll and by the
\* callback the pin monitor queues
StartAudioMonitor ==
    /\ app_pc = "running"
    /\ calls < MaxStarts /\ calls' = calls + 1
    /\ LET m == start_audio_monitor(variant, SIMULATED_MODE, adc_ok, AudioNow)
           spawns == audio_spawns(variant, SIMULATED_MODE, adc_ok, AudioNow)
       IN  /\ spawns => Alive(audio_threads) < MaxThreads
           /\ audio_running' = m.running
           /\ key_label' = m.label
           /\ audio_threads' = IF spawns THEN spawn(audio_threads) ELSE audio_threads
           /\ sampler' = IF spawns THEN NewSampler("audio") ELSE sampler
    /\ UNCHANGED <<analog_monitoring, analog_threads, pin_monitoring, pin_threads,
                   gauges>>
    /\ UNCHANGED threadFrame

\* stop_audio_monitor(): returns when the sampler does not run, else clears the
\* flag and sets audio_level to 0
StopAudioMonitor ==
    /\ app_pc = "running"
    /\ calls < MaxStarts /\ calls' = calls + 1
    /\ audio_running' = stop_audio_monitor(AudioNow).running
    /\ audio_threads' = IF audio_running THEN stop_seen_by(audio_threads)
                        ELSE audio_threads
    /\ gauges' = IF audio_running THEN [gauges EXCEPT !.mic = 0] ELSE gauges
    /\ UNCHANGED <<key_label, analog_monitoring, analog_threads, pin_monitoring,
                   pin_threads, sampler>>
    /\ UNCHANGED threadFrame

\* start_analog_monitoring(), called by create_gpio_control and by the callback
\* settle_gauges_to_idle queues
StartAnalogMonitoring ==
    /\ app_pc = "running"
    /\ calls < MaxStarts /\ calls' = calls + 1
    /\ analog_spawns(analog_monitoring) => Alive(analog_threads) < MaxThreads
    /\ analog_monitoring' = TRUE
    /\ analog_threads' = IF analog_spawns(analog_monitoring) THEN spawn(analog_threads)
                         ELSE analog_threads
    /\ sampler' = IF analog_spawns(analog_monitoring) THEN NewSampler("analog")
                  ELSE sampler
    /\ UNCHANGED <<audio_running, key_label, audio_threads, pin_monitoring, pin_threads,
                   gauges>>
    /\ UNCHANGED threadFrame

\* stop_analog_monitoring(), called by update_overlay_status, by
\* clear_all_configs and when the window closes
StopAnalogMonitoring ==
    /\ app_pc = "running"
    /\ calls < MaxStarts /\ calls' = calls + 1
    /\ analog_monitoring' = FALSE
    /\ analog_threads' = stop_seen_by(analog_threads)
    /\ UNCHANGED <<audio_running, key_label, audio_threads, pin_monitoring, pin_threads,
                   sampler, gauges>>
    /\ UNCHANGED threadFrame

\* stop_pin_monitoring(), called when the window closes; start_pin_monitoring
\* is called by __init__ only
StopPinMonitoring ==
    /\ app_pc = "running" /\ variant = "main_window"
    /\ calls < MaxStarts /\ calls' = calls + 1
    /\ pin_monitoring' = FALSE
    /\ pin_threads' = stop_seen_by(pin_threads)
    /\ UNCHANGED <<audio_running, key_label, audio_threads, analog_monitoring,
                   analog_threads, sampler, gauges>>
    /\ UNCHANGED threadFrame

\* a thread of adc_mic_monitor or fake_audio takes a step
AudioThread(stale) ==
    /\ \E s \in ThreadStates :
          /\ s.stale = stale /\ audio_threads[s] > 0
          /\ audio_threads' = thread_step(audio_threads, s, audio_running)
    /\ UNCHANGED <<audio_running, key_label, analog_monitoring, analog_threads,
                   pin_monitoring, pin_threads>>
    /\ UNCHANGED <<threadFrame, calls, sampler, gauges>>

\* a thread of analog_monitor_thread takes a step
AnalogThread(stale) ==
    /\ \E s \in ThreadStates :
          /\ s.stale = stale /\ analog_threads[s] > 0
          /\ analog_threads' = thread_step(analog_threads, s, analog_monitoring)
    /\ UNCHANGED <<audio_running, key_label, audio_threads, analog_monitoring,
                   pin_monitoring, pin_threads>>
    /\ UNCHANGED <<threadFrame, calls, sampler, gauges>>

\* a thread of pin_monitor_thread takes a step
PinThread(stale) ==
    /\ \E s \in ThreadStates :
          /\ s.stale = stale /\ pin_threads[s] > 0
          /\ pin_threads' = thread_step(pin_threads, s, pin_monitoring)
    /\ UNCHANGED <<audio_running, key_label, audio_threads, analog_monitoring,
                   analog_threads, pin_monitoring>>
    /\ UNCHANGED <<threadFrame, calls, sampler, gauges>>

\* a read in the body of a sampling loop raises: the try statement encloses the
\* whole `while` loop, so the except clause runs after the loop was left and
\* the thread function returns, its flag as it was
read_raises(T, s) == [T EXCEPT ![s] = @ - 1]

\* what a raising read leaves alone besides the flags and the other threads
raiseFrame == <<storeVars, gpioVars, editVars, keyed_up, mic_check_running, mic_pin,
                adc_ok, ticks, poll_on, poll_off, pin_changes, keys_ever, k_held,
                panelVars, simulation_enabled, calls, sampler, gauges, gauge_animation>>

\* adc_mic_monitor: mic_channel.voltage raises; the except clause logs and
\* queues the "AUDIO ERROR" label for the UI thread
AudioReadRaises ==
    /\ ~SIMULATED_MODE
    /\ \E s \in ThreadStates :
          /\ s.pc = "body" /\ audio_threads[s] > 0
          /\ audio_threads' = read_raises(audio_threads, s)
    /\ after_queue' = after_queue \o <<"AUDIO ERROR">>
    /\ UNCHANGED <<audio_running, key_label, analog_monitoring, analog_threads,
                   pin_monitoring, pin_threads>>
    /\ UNCHANGED raiseFrame

\* analog_monitor_thread on hardware: a channel read raises; the except clause
\* logs
AnalogReadRaises ==
    /\ ~SIMULATED_MODE
    /\ \E s \in ThreadStates :
          /\ s.pc = "body" /\ analog_threads[s] > 0
          /\ analog_threads' = read_raises(analog_threads, s)
    /\ UNCHANGED <<audio_running, key_label, audio_threads, analog_monitoring,
                   pin_monitoring, pin_threads, after_queue>>
    /\ UNCHANGED raiseFrame

\* pin_monitor_thread: GPIO.input(MIC_CONTROL_PIN) raises; the except clause
\* of the thread function logs (the coax read has a try statement of its own
\* inside the loop)
PinReadRaises ==
    /\ ~SIMULATED_MODE
    /\ \E s \in ThreadStates :
          /\ s.pc = "body" /\ pin_threads[s] > 0
          /\ pin_threads' = read_raises(pin_threads, s)
    /\ UNCHANGED <<audio_running, key_label, audio_threads, analog_monitoring,
                   analog_threads, pin_monitoring, after_queue>>
    /\ UNCHANGED raiseFrame

NextThreads ==
    \/ StartAudioMonitor \/ StopAudioMonitor
    \/ StartAnalogMonitoring \/ StopAnalogMonitoring \/ StopPinMonitoring
    \/ \E stale \in BOOLEAN : AudioThread(stale)
    \/ \E stale \in BOOLEAN : AnalogThread(stale)
    \/ \E stale \in BOOLEAN : PinThread(stale)
    \/ AudioReadRaises \/ AnalogReadRaises \/ PinReadRaises

\* a running session with nothing assigned and no sampler started but the pin
\* monitor
InitThreads == RunningSession({<<>>})

\* ------------------------------------------------------- SpecGauge
\* min(max(x, lo), hi)
clamp(x, lo, hi) == IF x < lo THEN lo ELSE IF x > hi THEN hi ELSE x

\* (raw / 65535) * 100 in millionths of a percent
percent(raw) ==
    LET q == raw * 10000
    IN  (q \div 65535) * 10000 + ((q % 65535) * 10000) \div 65535

\* the update with the coefficients 0.05 and 0.95 in place of 0.2 and 0.8 of
\* the sampler, rounded alike
ema_slow(new, smoothed) == (new + 19 * smoothed + 10) \div 20

\* (new * 0.2) + (smoothed * 0.8), rounded to the nearest millionth
ema(new, smoothed) == (2 * new + 8 * smoothed + 5) \div 10

\* math.log(n) for an integer n >= 1 in units of 1/10000: n = m * 2^k with
\* 1 <= m < 2, log(n) = k * log(2) + 2 * atanh((m - 1) / (m + 1)), the series
\* of atanh taken to the ninth power
math_log(n) ==
    LET k == CHOOSE e \in 0..16 : 2^e <= n /\ n < 2^(e + 1)
        z == ((n - 2^k) * 10000) \div (n + 2^k)
        z2 == (z * z) \div 10000
        t3 == (z * z2) \div 10000
        t5 == (t3 * z2) \div 10000
        t7 == (t5 * z2) \div 10000
        t9 == (t7 * z2) \div 10000
    IN  (k * 69315) \div 10
        + 2 * (z + t3 \div 3 + t5 \div 5 + t7 \div 7 + t9 \div 9)

\* temp_celsius of the sampler in hundredths of a degree for the count
\* temp_raw: temp_voltage = (raw / 65535) * 3.3; below 3.2 V
\* r_thermistor / 10000 = raw / (65535 - raw) and
\* temp_k = 1 / (1/298.15 + (1/3950) * log(r_thermistor / 10000))
\*        = 298.15 * 3950 / (3950 + 298.15 * log(...)),
\* with 25 when log raises (a count of 0) and from 3.2 V on
temp_celsius(raw) ==
    IF raw * 33 < 32 * 65535
    THEN IF raw = 0 THEN 2500
         ELSE LET l == math_log(raw) - math_log(65535 - raw)
                  d == 39500 + (5963 * l) \div 20000
              IN  (1177692500 \div d) - 27315
    ELSE 2500

\* temp_pct = min(max((temp_celsius / 100) * 100, 0), 100)
temp_pct(raw) == clamp(temp_celsius(raw) * 10000, 0, 100000000)

\* min(max(int((voltage / 3.3) * 100), 0), 100) for a voltage in millivolts
level_percent(mv) == clamp((mv * 100) \div 3300, 0, 100)

\* the counts the ADC returns on the three channels of the gauge group
RawInputs ==
    [pot : {0, 1, 32768, 65535},
     temp : {0, 1, 32768, 59577, 63549, 63550, 65535},
     aux : {1, 65535}]

\* the voltages, in millivolts, the ADC returns on the mic and signal channels
Millivolts == {-200, 0, 1650, 3300, 4096}

\* the thread function starts: it takes the hardware branch, the idle branch
\* or the branch of the moving waveform and creates its local variables
sampler_begin(s, sim, enabled, adc) ==
    IF s.thread = "audio"
    THEN [s EXCEPT !.kind = IF sim THEN "fake_audio" ELSE "adc_mic", !.pc = "add",
                   !.level = 0, !.direction = 1]
    ELSE IF ~sim
    THEN IF adc THEN [s EXCEPT !.kind = "adc", !.pc = "sample"]
         ELSE [s EXCEPT !.kind = "adc", !.pc = "done"]
    ELSE IF ~enabled
    THEN [s EXCEPT !.kind = "idle", !.pc = "sample"]
    ELSE [s EXCEPT !.kind = "sim", !.pc = "add", !.vals = <<0, 25, 50>>,
                   !.dirs = <<1, 1, 1>>, !.i = 1]

\* one pass of the hardware loop with the counts raw
adc_sample(s, raw) ==
    [s EXCEPT !.raw = raw,
              !.smoothed = [pot |-> ema(percent(raw.pot), s.smoothed.pot),
                            temp |-> ema(temp_pct(raw.temp), s.smoothed.temp),
                            aux |-> ema(percent(raw.aux), s.smoothed.aux)],
              !.turns = s.turns + 1,
              !.queued = TRUE]

\* one statement of the loop of the moving waveform:
\* sim_values[i] += sim_dirs[i] * (i + 1) for i in range(3), then the
\* clamping if / elif, and after the third value the root.after calls
sim_step(s) ==
    CASE s.pc = "add" ->
           [s EXCEPT !.vals[s.i] = @ + s.dirs[s.i] * s.i, !.pc = "clamp"]
      [] s.pc = "clamp" ->
           LET t == IF s.vals[s.i] >= 100
                    THEN [s EXCEPT !.vals[s.i] = 100, !.dirs[s.i] = -1]
                    ELSE IF s.vals[s.i] <= 0
                    THEN [s EXCEPT !.vals[s.i] = 0, !.dirs[s.i] = 1]
                    ELSE s
           IN  IF s.i < 3 THEN [t EXCEPT !.i = s.i + 1, !.pc = "add"]
               ELSE [t EXCEPT !.pc = "queue"]
      [] OTHER ->
           [s EXCEPT !.i = 1, !.pc = "add", !.turns = s.turns + 1, !.queued = TRUE]

\* one statement of the loop of fake_audio: level += direction * 5, then the
\* clamping if / elif, then the root.after call
fake_audio_step(s) ==
    CASE s.pc = "add" ->
           [s EXCEPT !.level = @ + s.direction * 5, !.pc = "clamp"]
      [] s.pc = "clamp" ->
           IF s.level >= 100 THEN [s EXCEPT !.level = 100, !.direction = -1, !.pc = "queue"]
           ELSE IF s.level <= 0 THEN [s EXCEPT !.level = 0, !.direction = 1, !.pc = "queue"]
           ELSE [s EXCEPT !.pc = "queue"]
      [] OTHER ->
           [s EXCEPT !.pc = "add", !.turns = s.turns + 1, !.queued = TRUE]

\* the queued lambdas run on the UI thread: each reads the variable of the
\* sampling thread it closes over when it runs, not when it was queued
ui_callbacks(s, g) ==
    CASE s.kind = "adc" ->
           [g EXCEPT !.pot = s.smoothed.pot, !.temp = s.smoothed.temp,
                     !.aux = s.smoothed.aux, !.handed = TRUE]
      [] s.kind = "idle" ->
           [g EXCEPT !.pot = 0, !.temp = 0, !.aux = 0, !.handed = TRUE]
      [] s.kind = "sim" ->
           [g EXCEPT !.pot = s.vals[1] * 1000000, !.temp = s.vals[2] * 1000000,
                     !.aux = s.vals[3] * 1000000, !.handed = TRUE]
      [] OTHER -> [g EXCEPT !.mic = s.level * 1000000]

\* what the samplers and the UI callbacks leave alone
gaugeFrame == <<storeVars, gpioVars, editVars, appVars, micVars, panelVars,
                analog_monitoring, simulation_enabled, audio_threads, analog_threads,
                pin_threads, calls, gauge_animation>>

\* SpecGauge follows one sampler per behaviour, the samplers share no variable:
\* start_analog_monitoring() with no sampler started before
GaugeStartAnalog ==
    /\ sampler.thread = "none" /\ gauges = NoGauges
    /\ StartAnalogMonitoring

\* start_audio_monitor() with no sampler started before
GaugeStartAudio ==
    /\ sampler.thread = "none" /\ gauges = NoGauges
    /\ StartAudioMonitor

\* stop_audio_monitor() while the sampler SpecGauge follows is the mic sampler
GaugeStopAudio ==
    /\ sampler.thread = "audio"
    /\ StopAudioMonitor

\* toggle_simulation_mode(), bound to the 't' key: switching the simulation off
\* sets the three gauges to 0
ToggleSimulation ==
    /\ app_pc = "running"
    /\ simulation_enabled' = ~simulation_enabled
    /\ gauges' = IF simulation_enabled
                 THEN [gauges EXCEPT !.pot = 0, !.temp = 0, !.aux = 0]
                 ELSE gauges
    /\ UNCHANGED <<storeVars, gpioVars, editVars, appVars, micVars, panelVars,
                   analog_monitoring, audio_threads, analog_threads, pin_threads, calls,
                   sampler, gauge_animation>>

\* the thread started last begins to run
SamplerBegin ==
    /\ sampler.pc = "begin"
    /\ sampler' = sampler_begin(sampler, SIMULATED_MODE, simulation_enabled, adc_ok)
    /\ UNCHANGED <<gaugeFrame, gauges>>

\* analog_monitor_thread on hardware: one pass of `while self.analog_monitoring`,
\* the input held at what it was in the pass before
AnalogSample ==
    /\ sampler.kind = "adc" /\ sampler.pc = "sample"
    /\ analog_monitoring /\ sampler.turns < MaxHold
    /\ \E raw \in RawInputs :
          /\ sampler.turns > 0 => raw = sampler.raw
          /\ sampler' = adc_sample(sampler, raw)
    /\ UNCHANGED <<gaugeFrame, gauges>>

\* analog_monitor_thread with the simulation off: one pass of the idle loop
IdleSample ==
    /\ sampler.kind = "idle" /\ sampler.pc = "sample"
    /\ analog_monitoring /\ sampler.turns < MaxHold
    /\ sampler' = [sampler EXCEPT !.turns = @ + 1, !.queued = TRUE]
    /\ UNCHANGED <<gaugeFrame, gauges>>

\* analog_monitor_thread with the simulation on: one statement of its loop
SimStep ==
    /\ sampler.kind = "sim"
    /\ analog_monitoring /\ sampler.turns < MaxHold
    /\ sampler' = sim_step(sampler)
    /\ UNCHANGED <<gaugeFrame, gauges>>

\* fake_audio: one statement of its loop; `while self.audio_running` is tested
\* before the first statement of a pass only
FakeAudioStep ==
    /\ sampler.kind = "fake_audio"
    /\ sampler.pc = "add" => audio_running
    /\ sampler.turns < MaxHold
    /\ sampler' = fake_audio_step(sampler)
    /\ UNCHANGED <<gaugeFrame, gauges>>

\* adc_mic_monitor: one pass of its loop
AdcMicSample ==
    /\ sampler.kind = "adc_mic"
    /\ audio_running /\ sampler.turns < MaxHold
    /\ \E mv \in Millivolts :
          sampler' = [sampler EXCEPT !.level = level_percent(mv), !.turns = @ + 1,
                                     !.queued = TRUE]
    /\ UNCHANGED <<gaugeFrame, gauges>>

\* pin_monitor_thread: the coax signal percentage of one pass, handed to the
\* signal quality meter
CoaxSample ==
    /\ app_pc = "running" /\ pin_monitoring
    /\ is_function_configured(Config, "Analog Input Module")
    /\ sampler.thread = "none"
    /\ \E mv \in Millivolts :
          gauges' = [gauges EXCEPT !.signal = level_percent(mv) * 1000000]
    /\ UNCHANGED <<gaugeFrame, sampler>>

\* the UI thread runs the callbacks the sampler has queued
UiCallbacks ==
    /\ sampler.queued
    /\ gauges' = ui_callbacks(sampler, gauges)
    /\ sampler' = [sampler EXCEPT !.queued = FALSE]
    /\ UNCHANGED gaugeFrame

NextGauge ==
    \/ GaugeStartAnalog \/ GaugeStartAudio \/ GaugeStopAudio \/ ToggleSimulation
    \/ SamplerBegin
    \/ AnalogSample \/ IdleSample \/ SimStep \/ FakeAudioStep \/ AdcMicSample
    \/ CoaxSample \/ UiCallbacks

\* main_window.py running with "Analog Input Module" assigned, no sampler
\* started but the pin monitor
InitGauge == RunningSession({<<"Analog Input Module">>}) /\ variant = "main_window"

\* ------------------------------------------------------- SpecAnimation
\* main_window.py: the editor's operations with what they do to the gauge
\* sampler, and the callbacks of the start-up animation of the gauges.
\* The gauge sampler as these handlers find it
AnalogNow ==
    [monitoring |-> analog_monitoring, threads |-> analog_threads,
     anim |-> gauge_animation]

\* start_analog_monitoring(): returns when the sampler runs already
start_analog_monitoring(g) ==
    IF g.monitoring THEN g
    ELSE [g EXCEPT !.monitoring = TRUE, !.threads = spawn(g.threads)]

\* stop_analog_monitoring()
stop_analog_monitoring(g) ==
    [g EXCEPT !.monitoring = FALSE, !.threads = stop_seen_by(g.threads)]

\* load_gpio_controls(): create_gpio_control starts the sampler for an entry
\* "Analog Input Module"
controls_start_sampler(d, g) ==
    IF is_function_configured(d, "Analog Input Module")
    THEN start_analog_monitoring(g)
    ELSE g

\* update_overlay_status(), the gauge overlays: with the module configured the
\* first call stops the sampler and schedules gauge_startup_animation; without
\* it the trigger attribute is deleted and the sampler stopped
overlay_gauges(d, g) ==
    IF is_function_configured(d, "Analog Input Module")
    THEN IF g.anim.triggered THEN g
         ELSE [stop_analog_monitoring(g) EXCEPT !.anim.triggered = TRUE,
                                                !.anim.animation = @ + 1]
    ELSE [stop_analog_monitoring(g) EXCEPT !.anim.triggered = FALSE]

\* load_gpio_controls() and update_overlay_status() at the end of an operation
\* that got as far as these calls
gauges_after(d, g, end) ==
    IF end \in {"done", "failed"}
    THEN overlay_gauges(d, controls_start_sampler(d, g))
    ELSE g

\* the state after an operation with result r that left the gauge sampler as g
AnimBecomes(r, g) ==
    /\ StoreBecomes(r.st)
    /\ GPIO_state' = r.a.state
    /\ out_log' = r.a.log
    /\ PIN_STATES' = r.a.pins
    /\ gpio_call' = r.a.call
    /\ mic_check_running' = r.a.mcr
    /\ PanelBecomes(r.a)
    /\ config_window' = r.w
    /\ lastSaved' = IF r.end = "done"
                    THEN [valid |-> TRUE, m |-> json_load(r.st.file.content).val]
                    ELSE lastSaved
    /\ analog_monitoring' = g.monitoring
    /\ analog_threads' = g.threads
    /\ gauge_animation' = g.anim
    /\ UNCHANGED <<platform, import_outcome, gpio_pc, SIMULATED_MODE, GPIO, variant,
                   keep_config, keyed_up, audio_running, micVars, simulated_inputs,
                   gpio_input, simulation_enabled, audio_threads, sampler, gauges,
                   calls, pin_threads, app_pc, pin_monitoring>>

\* the Save button of the configuration window
AnimSaveAssignment ==
    /\ config_window.open /\ ops < MaxOps
    /\ \E wok \in BOOLEAN :
          /\ wok => CanWrite(file)
          /\ LET r == save_assignment(variant, SIMULATED_MODE, CallSt, SideNow,
                                      config_window, wok)
             IN  /\ AnimBecomes(r, gauges_after(UiData(variant, r.st), AnalogNow, r.end))
                 /\ lastOp' = "save_assignment " \o r.end
    /\ ops' = ops + 1

\* the Delete button of the control of key k
AnimDeleteGpio ==
    /\ app_pc = "running" /\ ~config_window.open /\ ops < MaxOps
    /\ \E k \in DictKeys(Config), wok \in BOOLEAN :
          /\ isdigit(k) \/ DictGet(Config, k) = "Analog Input Module"
          /\ wok => CanWrite(file)
          /\ LET r == delete_gpio(variant, SIMULATED_MODE, CallSt, SideNow, k, wok)
             IN  /\ AnimBecomes(r, gauges_after(UiData(variant, r.st), AnalogNow, r.end))
                 /\ lastOp' = "delete_gpio " \o r.end
    /\ ops' = ops + 1

\* the Clear All button, confirmed: stop_analog_monitoring() first
AnimClearAllConfigs ==
    /\ config_window.open /\ ops < MaxOps
    /\ \E wok \in BOOLEAN :
          /\ wok => CanWrite(file)
          /\ LET r == clear_all_configs(variant, SIMULATED_MODE, CallSt, SideNow, wok)
             IN  /\ AnimBecomes(r, gauges_after(UiData(variant, r.st),
                                                stop_analog_monitoring(AnalogNow), r.end))
                 /\ lastOp' = "clear_all_configs " \o r.end
    /\ ops' = ops + 1

\* what the callbacks of the animation leave alone
animFrame == <<storeVars, gpioVars, editVars, appVars, micVars, panelVars,
               simulation_enabled, audio_threads, pin_threads, sampler, calls>>

\* gauge_startup_animation() and its animate_step chain run to the last step,
\* which schedules settle_gauges_to_idle
GaugeStartupAnimation ==
    /\ gauge_animation.animation > 0
    /\ gauge_animation' = [gauge_animation EXCEPT !.animation = @ - 1, !.settle = @ + 1]
    /\ UNCHANGED <<animFrame, analog_monitoring, analog_threads, gauges>>

\* settle_gauges_to_idle(): the gauges at 0, start_analog_monitoring scheduled
SettleGaugesToIdle ==
    /\ gauge_animation.settle > 0
    /\ gauge_animation' = [gauge_animation EXCEPT !.settle = @ - 1, !.start = @ + 1]
    /\ gauges' = [gauges EXCEPT !.pot = 0, !.temp = 0, !.aux = 0]
    /\ UNCHANGED <<animFrame, analog_monitoring, analog_threads>>

\* the start_analog_monitoring callback settle_gauges_to_idle scheduled
StartAfterSettle ==
    /\ gauge_animation.start > 0
    /\ LET g == start_analog_monitoring(
                    [AnalogNow EXCEPT !.anim.start = @ - 1])
       IN  /\ analog_monitoring' = g.monitoring
           /\ analog_threads' = g.threads
           /\ gauge_animation' = g.anim
    /\ UNCHANGED <<animFrame, gauges>>

NextAnimation ==
    \/ OpenConfigWindow \/ SelectFunction
    \/ AnimSaveAssignment \/ AnimDeleteGpio \/ AnimClearAllConfigs
    \/ GaugeStartupAnimation \/ SettleGaugesToIdle \/ StartAfterSettle
    \/ \E stale \in BOOLEAN : AnalogThread(stale)

\* main_window.py running, nothing assigned
InitAnimation == RunningSession({<<>>}) /\ variant = "main_window"

\* ------------------------------------------------------- SpecOutputs
\* the operator toggles the outputs while entries are assigned and deleted.
\* toggle_gpio_state(pin, ...), the button of the control of pin:
\*   new_state = not PIN_STATES.get(pin, False); GPIO.output(pin, new_state);
\*   PIN_STATES[pin] = new_state
\* On hardware GPIO.output raises for a pin that was set up as an input, and
\* the handler's except clause leaves PIN_STATES as it is
toggle_gpio_state(sim, a, pin, function) ==
    LET current_state == IF DictHas(a.pins, pin) THEN DictGet(a.pins, pin) ELSE 0
        new_state == IF current_state = 0 THEN 1 ELSE 0
        is_input == \/ function = "Mic Control" /\ pin = MIC_CONTROL_PIN
                    \/ IsIndicatorFunction(function)
    IN  IF ~sim /\ is_input
        THEN a
        ELSE LET a1 == IF ~sim THEN a
                       ELSE [a EXCEPT !.state = mock_output(a.state, pin, new_state),
                                      !.log = Append(a.log, <<pin, new_state>>),
                                      !.call = [op |-> "output", pin |-> pin, val |-> -1]]
             IN  [a1 EXCEPT !.pins = DictSet(@, pin, new_state)]

\* the button of the control of key k is pressed
ToggleGpioState ==
    /\ app_pc = "running" /\ ~config_window.open
    /\ Len(out_log) < MaxCalls
    /\ \E k \in DictKeys(Config) :
          /\ isdigit(k)
          /\ LET a == toggle_gpio_state(SIMULATED_MODE, SideNow, int(k), DictGet(Config, k))
             IN  /\ GPIO_state' = a.state
                 /\ out_log' = a.log
                 /\ gpio_call' = a.call
                 /\ PIN_STATES' = a.pins
    /\ UNCHANGED <<platform, import_outcome, gpio_pc, SIMULATED_MODE, GPIO>>
    /\ UNCHANGED nonGpioVars

\* the configuration files a session with outputs can find at start
OutputFiles ==
    {NoFile,
     [kind |-> "ok",
      content |-> json_dump(<<[k |-> "5", v |-> "Relay Control"],
                              [k |-> "13", v |-> "Landing Gear Control"]>>)]}

InitOutputs == InitSession(OutputFiles)

NextOutputs ==
    \/ Startup \/ OpenConfigWindow \/ SelectPin \/ SelectFunction
    \/ SaveAssignment \/ DeleteGpio \/ ToggleGpioState

\* ------------------------------------------------------- SpecSession
\* a running session in which the operator removes entries of the configuration
\* (Delete, Clear All) while the mic handlers and the mic poll run.  The 'k' bindings are on the root window:
\* while the configuration window is open it has the keyboard, and a 'k' event
\* does not reach them
SessionKeyDown == ~config_window.open /\ KeyDown

SessionKeyUp == ~config_window.open /\ KeyUp

NextSession ==
    \/ MicPinChange \/ UpdateIndicators \/ PinMonitorTick \/ AfterCallback
    \/ SessionKeyDown \/ SessionKeyUp
    \/ OpenConfigWindow \/ DeleteGpio \/ ClearAllConfigs

vars == <<storeVars, gpioVars, editVars, appVars, micVars, panelVars, samplerVars>>

\* the scheduler lets every thread that can take a step take one eventually
ThreadFairness ==
    \A stale \in BOOLEAN :
        /\ WF_vars(AudioThread(stale))
        /\ WF_vars(AnalogThread(stale))
        /\ WF_vars(PinThread(stale))

SpecStore == InitStore /\ [][NextStore]_vars

SpecGpio == InitGpio /\ [][NextGpio]_vars

SpecEditor == InitEditor /\ [][NextEditor]_vars

SpecOutputs == InitOutputs /\ [][NextOutputs]_vars

SpecThreads == InitThreads /\ [][NextThreads]_vars

SpecThreadsFair == InitThreads /\ [][NextThreads]_vars /\ ThreadFairness

SpecGauge == InitGauge /\ [][NextGauge]_vars

SpecMic == InitMic /\ [][NextMic]_vars

SpecSession == InitMic /\ [][NextSession]_vars

SpecAnimation == InitAnimation /\ [][NextAnimation]_vars

SpecPanel == InitPanel /\ [][NextPanel]_vars

\* ------------------------------------------------------- claims
\* C1: round trip. A load_config() that follows a save_config(m) whose write
\* reached the file (nothing having touched the file in between) returns a
\* mapping with the keys, the values and the key order of m.
RoundTrip ==
    (lastOp = "load_config" /\ lastSaved.valid) => ret = lastSaved.m

RoundTripWitness ==
    /\ lastOp = "load_config" /\ lastSaved.valid
    /\ Len(lastSaved.m) >= 2 /\ DictHas(lastSaved.m, ANALOG_INPUT_MODULE_ID)
    /\ ret = lastSaved.m

\* the file cannot be loaded: missing, unreadable or not valid JSON
FileBad == file.kind # "ok" \/ ~json_load(file.content).ok

\* C6: a load_config() that finds the file missing, unreadable or not valid
\* JSON returns an empty mapping, leaves config_manager.config_data empty and
\* leaves the file as it was.
LoadFailureEmpty ==
    [][(lastOp' = "load_config" /\ FileBad)
         => (ret' = EmptyDict /\ CmValue' = EmptyDict /\ file' = file)]_vars

LoadFailureWitness ==
    /\ lastOp = "load_config" /\ file.kind = "ok" /\ Len(file.content) > 2
    /\ ~json_load(file.content).ok
    /\ ret = EmptyDict /\ CmValue = EmptyDict

\* the value of the last output(pin, .) in the log, 1 when there is none
LastOutput(log, pin) ==
    LET written == {i \in 1..Len(log) : log[i][1] = pin}
    IN  IF written = {} THEN 1
        ELSE log[CHOOSE i \in written : \A j \in written : j <= i][2]

\* C4: every simulated input(p) returns the value of the most recent
\* output(p, v), or 1 when output(p, .) was never called, whatever setup,
\* cleanup and output calls on other pins came in between.
MockRegister ==
    gpio_call.op = "input" => gpio_call.val = LastOutput(out_log, gpio_call.pin)

MockRegisterWitness ==
    /\ gpio_call.op = "input" /\ gpio_call.val = 0
    /\ Len(out_log) >= 2
    /\ out_log[Len(out_log)][1] # gpio_call.pin
    /\ out_log[Len(out_log)][2] = 1

\* C5: once gpio_handler.py has been imported on a host where the platform is
\* win32 or the import of the driver failed, SIMULATED_MODE is true, GPIO is the
\* simulated module and the import did not raise.
FallbackSelection ==
    (gpio_pc # "start" /\ (platform = "win32" \/ import_outcome # "ok"))
        => (gpio_pc = "imported" /\ SIMULATED_MODE /\ GPIO = "mock")

\* the mapping d has the entry k -> v
HasEntry(d, k, v) == DictHas(d, k) /\ DictGet(d, k) = v

\* d2 differs from d1 at most in the keys ks
SameOutside(d1, d2, ks) ==
    \A k \in (DictKeys(d1) \cup DictKeys(d2)) \ ks :
        /\ DictHas(d1, k) /\ DictHas(d2, k)
        /\ DictGet(d1, k) = DictGet(d2, k)

LandingGearKeys == {str(NOSE_GEAR_PIN), str(LEFT_GEAR_PIN), str(RIGHT_GEAR_PIN)}

NavLightKeys == {str(LEFT_NAV_PIN), str(RIGHT_NAV_PIN), str(TAIL_NAV_PIN)}

\* this step is a press of the Save button
SaveStep ==
    /\ ops' = ops + 1
    /\ lastOp' \in {"save_assignment done", "save_assignment failed",
                    "save_assignment raised", "save_assignment warned"}

\* C2: a press of Save with "Landing Gear Control" selected leaves the mapping
\* with "13" -> "Landing Gear Control", "19" -> "... (Left)" and "26" ->
\* "... (Right)"; with "Nav Light Toggle" selected it leaves "22" -> "Nav Light
\* Toggle", "23" -> "... (Right)" and "24" -> "... (Tail)"; whatever the mapping
\* and the pin dropdown held, every key outside the group is as it was before.
GroupedAssignment ==
    [][/\ (SaveStep /\ config_window.function_var = "Landing Gear Control")
          => /\ HasEntry(Config', "13", "Landing Gear Control")
             /\ HasEntry(Config', "19", "Landing Gear Control (Left)")
             /\ HasEntry(Config', "26", "Landing Gear Control (Right)")
             /\ SameOutside(Config, Config', LandingGearKeys)
       /\ (SaveStep /\ config_window.function_var = "Nav Light Toggle")
          => /\ HasEntry(Config', "22", "Nav Light Toggle")
             /\ HasEntry(Config', "23", "Nav Light Toggle (Right)")
             /\ HasEntry(Config', "24", "Nav Light Toggle (Tail)")
             /\ SameOutside(Config, Config', NavLightKeys)]_vars

\* the nav lights were assigned last, over a mapping that already held the
\* landing gear group and a key the stale pin dropdown had written
GroupedAssignmentWitness ==
    /\ lastOp = "save_assignment done"
    /\ Len(Config) >= 4
    /\ Config[Len(Config)] = [k |-> "24", v |-> "Nav Light Toggle (Tail)"]
    /\ Config[Len(Config) - 1] = [k |-> "23", v |-> "Nav Light Toggle (Right)"]
    /\ Config[Len(Config) - 2] = [k |-> "22", v |-> "Nav Light Toggle"]
    /\ DictKeys(Config) \ NavLightKeys # {}

\* the keys of ks are all in d or all missing from d
AllOrNone(d, ks) == (ks \subseteq DictKeys(d)) \/ (ks \cap DictKeys(d) = {})

\* C3: in every state of a running session the landing-gear keys "13", "19",
\* "26" are all present or all absent in the mapping, and so are the nav-light
\* keys "22", "23", "24".
GroupIntegrity ==
    app_pc = "running"
        => AllOrNone(Config, LandingGearKeys) /\ AllOrNone(Config, NavLightKeys)

\* this step is an operation whose save_config call could not write the file
FailedSaveStep ==
    /\ ops' = ops + 1
    /\ \/ lastOp' \in {"save_assignment failed", "delete_gpio failed"}
       \/ lastOp' = "clear_all_configs failed" /\ variant = "V3.0"

\* C7: an assign, delete or clear operation whose save_config call cannot write
\* the file shows an error and leaves the editor's mapping as it was before the
\* operation.
FailedSaveUnchanged ==
    [][FailedSaveStep => (errorShown' /\ Config' = Config)]_vars

\* gpio_config.json holds a valid configuration
FileValid == file.kind = "ok" /\ json_load(file.content).ok

\* C8: once gui.run_app, or main_window.run_app with --keep-config, has started
\* on a valid configuration file, the mapping the UI reads equals the content of
\* the file.
StartupLoad ==
    (/\ lastOp = "run_app"
     /\ variant = "gui" \/ (variant = "main_window" /\ keep_config)
     /\ FileValid)
        => Config = json_load(file.content).val

\* the mic pin is polled and the polls act: a hardware host, the poll enabled,
\* and the functions the variant asks for configured
MicEnabled ==
    /\ ~SIMULATED_MODE
    /\ variant = "V3.0" => mic_check_running
    /\ variant = "main_window" => pin_monitoring
    /\ mic_configured(variant, Config)

\* C9: while mic monitoring is configured and enabled, the polls make at most one
\* STANDBY -> ACTIVE transition and at most one ACTIVE -> STANDBY transition for
\* as long as the level of the mic pin stays the same, 'k' key events or not.
EdgeTriggering == MicEnabled => (poll_on <= 1 /\ poll_off <= 1)

\* the mic pin went low once and has been polled since, no key was touched
HeldLow(n) ==
    /\ app_pc = "running" /\ ~keys_ever
    /\ pin_changes = 1 /\ mic_pin = 0 /\ ticks >= n

\* the polls made one transition to ACTIVE; the sampler runs once the UI thread
\* has run the callbacks it was handed
OneActivation ==
    /\ poll_on = 1 /\ keyed_up
    /\ after_queue = <<>> => audio_running = adc_ok

Reading(name) ==
    get_pin_state(SIMULATED_MODE, simulated_inputs, gpio_input, indicator_pin(name))

\* the pull-up convention: a gear indicator is green or lime on a reading of 0
\* and red on a reading of 1; a nav indicator is lit on 0 and gray on 1
PullUpShown(name) ==
    IF name \in GearNames
    THEN /\ indicators[name] \in {"green", "lime"} <=> Reading(name) = 0
         /\ indicators[name] = "red" <=> Reading(name) = 1
    ELSE indicators[name] = "gray" <=> Reading(name) = 1

\* update_indicators has run to its end since the last change of a pin, and
\* the functions the panel shows are assigned
FreshTick ==
    /\ app_pc = "running" /\ ticks > 0 /\ tick_end = "normal"
    /\ is_function_configured(Config, "Landing Gear Control")
    /\ is_function_configured(Config, "Nav Light Toggle")

\* C11: after an execution of update_indicators that ran to its end, with the
\* landing gear and the nav lights assigned, every indicator shows the current
\* reading of its pin by the pull-up convention (gear green or lime on 0 and
\* red on 1, nav lit on 0 and gray on 1), in V3.0.py and in control_panel.py
\* alike.
IndicatorMapping ==
    FreshTick => \A i \in 1..Len(IndicatorNames) : PullUpShown(IndicatorNames[i])

\* this step is an execution of update_indicators from the timer
TickStep == ticks' = ticks + 1

PendingTicks == indicator_timers.fast + indicator_timers.slow

\* C12: every execution of update_indicators, ended normally or by an
\* exception, takes one pending callback and schedules exactly one, with delay
\* 200 after a normal end and delay 1000 after an exception; a started loop
\* always has an execution pending.
SelfHealingLoop ==
    /\ [][TickStep =>
            /\ PendingTicks' = PendingTicks
            /\ tick_end' = "normal" =>
                   /\ indicator_timers.fast' >= 1
                   /\ indicator_timers.fast' >= indicator_timers.fast
            /\ tick_end' = "raised" =>
                   /\ indicator_timers.slow' >= 1
                   /\ indicator_timers.slow' >= indicator_timers.slow
            /\ tick_end' \in {"normal", "raised"}]_vars
    /\ [](app_pc = "running" => PendingTicks >= 1)

\* an execution raised half way, another one ran to its end afterwards
SelfHealingWitness ==
    /\ ticks >= 2 /\ tick_end = "normal"
    /\ indicator_timers.slow >= 1 /\ indicator_timers.fast >= 1
    /\ indicators["nose"] # draw_indicators["nose"]

\* C13: in every state of a running session, after start-up and after any save,
\* delete and clear operations, at most one update_indicators callback is
\* pending.
SingleTimer == app_pc = "running" => PendingTicks <= 1

\* C14: a start operation called while its sampler runs creates no thread and
\* changes nothing, for start_audio_monitor and for start_analog_monitoring
IdempotentStart ==
    [][/\ (StartAudioMonitor /\ audio_running) =>
            (/\ audio_threads' = audio_threads
             /\ audio_running' = audio_running
             /\ key_label' = key_label)
       /\ (StartAnalogMonitoring /\ analog_monitoring) =>
            (/\ analog_threads' = analog_threads
             /\ analog_monitoring' = analog_monitoring)]_vars

\* C15: the threads of a sampler that were running when its stop operation was
\* called all leave their loop eventually, whatever start and stop calls
\* follow, for the mic level, the gauge group and the pin monitor
CooperativeStop ==
    /\ (Stale(audio_threads) > 0) ~> (Stale(audio_threads) = 0)
    /\ (Stale(analog_threads) > 0) ~> (Stale(analog_threads) = 0)
    /\ (Stale(pin_threads) > 0) ~> (Stale(pin_threads) = 0)
\* C16: every value a sampler hands to the UI lies in 0..100 percent: the mic
\* level, the three gauges and the signal quality, on hardware for every count
\* and in simulated mode at every step of the waveform
PercentageRange ==
    \A g \in {"pot", "temp", "aux", "mic", "signal"} :
        gauges[g] >= 0 /\ gauges[g] <= 100000000

\* C17: on hardware, with smoothed starting at 0, an input held for 50 passes
\* or more leaves every smoothed value within 1% of the percentage of its count
EmaConvergence ==
    (sampler.kind = "adc" /\ sampler.turns >= 50) =>
        LET target == [pot |-> percent(sampler.raw.pot),
                       temp |-> temp_pct(sampler.raw.temp),
                       aux |-> percent(sampler.raw.aux)]
        IN  \A c \in {"pot", "temp", "aux"} :
               /\ sampler.smoothed[c] - target[c] <= target[c] \div 100
               /\ target[c] - sampler.smoothed[c] <= target[c] \div 100

\* a count of 1 on the pot channel and of half scale on the temp channel were
\* held for 50 passes
EmaConvergenceWitness ==
    /\ sampler.kind = "adc" /\ sampler.turns >= 50
    /\ sampler.raw.pot = 1 /\ sampler.raw.temp = 32768
    /\ sampler.smoothed.pot > 0 /\ sampler.smoothed.temp > 24000000

\* C18: with "Analog Input Module" assigned and the temp channel at the count
\* of 3.0 V, the Celsius value the operator is shown, value / 100 * 100 of what
\* update_temp_value got, is within 0.1 degree of the beta formula's
SteinhartShown ==
    (/\ is_function_configured(Config, "Analog Input Module")
     /\ sampler.kind = "adc" /\ sampler.raw.temp = 59577 /\ gauges.handed) =>
        LET shown == gauges.temp \div 10000
            formula == temp_celsius(59577)
        IN  shown - formula <= 10 /\ formula - shown <= 10
\* C19: whenever the configuration window opens, the pins it offers for free
\* assignment are the pool 5, 6, 12, 16, 20, 21, 25 without the numeric keys of
\* the mapping the UI holds
AvailablePins ==
    [][(~config_window.open /\ config_window'.open) =>
          config_window'.pins =
              {str(p) : p \in {5, 6, 12, 16, 20, 21, 25}} \ DictKeys(Config)]_vars

\* the window is open with pin 5 assigned and not offered, pin 6 offered
AvailablePinsWitness ==
    /\ config_window.open
    /\ "5" \in DictKeys(Config) /\ "5" \notin config_window.pins
    /\ "6" \in config_window.pins
\* C20: after a confirmed clear_all_configs the mapping the UI reads is empty
\* and the configuration file holds {}; load_gpio_controls lists one control
\* per entry of that mapping, so none is listed then
ClearAllEmpties ==
    lastOp = "clear_all_configs done" =>
        /\ Config = EmptyDict
        /\ file = [kind |-> "ok", content |-> json_dump(EmptyDict)]

\* C21: on hardware, while the 'k' key stays down, the mic state does not go
\* from ACTIVE (sampler running) to STANDBY as long as the mic pin has never been grounded (a
\* pin that keeps reading 1 makes no 0 -> 1 change)
IndependentSources ==
    [][(~SIMULATED_MODE /\ k_held /\ k_held' /\ audio_running
           /\ keyed_up /\ ~keyed_up')
          => pin_changes > 0]_vars

\* C22: once stop_audio_monitor has stopped the mic sampler, the displayed
\* mic level is 0 (no later start happens in SpecGauge)
LevelResetOnStop ==
    (sampler.thread = "audio" /\ ~audio_running) => gauges.mic = 0

\* C23: a pass of the pin monitor thread of main_window.py writes neither the
\* mic state keyed_up nor the label nor the sampler flag; what it causes is
\* left on the root.after queue for the UI thread
UiThreadConfinement ==
    [][(variant = "main_window" /\ pin_monitoring /\ ticks' = ticks + 1)
          => UNCHANGED <<keyed_up, key_label, audio_running>>]_vars

\* C24: a sampler whose running flag is set has a thread that samples: no
\* sampling thread has returned with its flag left true
SamplerSurvives ==
    /\ audio_running => Alive(audio_threads) > 0
    /\ analog_monitoring => Alive(analog_threads) > 0
    /\ pin_monitoring => Alive(pin_threads) > 0

\* C25: after a save_assignment, delete_gpio or clear_all_configs that ran to
\* its end with the file written, the configuration file holds the mapping
\* the UI reads
SaveAfterMutation ==
    lastOp \in {"save_assignment done", "delete_gpio done", "clear_all_configs done"}
        => /\ file.kind = "ok"
           /\ json_load(file.content).ok
           /\ json_load(file.content).val = Config

\* C26: whenever the mic state is ACTIVE (keyed_up set or the level sampler
\* running), the functions the mic handlers ask for are configured
MicActiveConfigured ==
    (keyed_up \/ audio_running) => mic_configured(variant, Config)

\* C27: whenever the gauge sampler runs (analog_monitoring set), "Analog Input
\* Module" is in the configuration the UI reads
GaugeSamplingConfigured ==
    analog_monitoring => is_function_configured(Config, "Analog Input Module")

\* C28: at most one mic-level sampling thread and at most one gauge sampling
\* thread are alive at any time
OneSamplerPerKind ==
    /\ Alive(audio_threads) <= 1
    /\ Alive(analog_threads) <= 1

\* C29: a step that stores "Relay Control", a function without a predefined
\* pin, stores it under a key of the pool {5, 6, 12, 16, 20, 21, 25} that was
\* not a key of the mapping before
FreeAssignmentInPool ==
    [][\A k \in DictKeys(Config') :
          (/\ DictGet(Config', k) = "Relay Control"
           /\ (DictHas(Config, k) => DictGet(Config, k) # "Relay Control"))
          => /\ k \in {str(p) : p \in {5, 6, 12, 16, 20, 21, 25}}
             /\ ~DictHas(Config, k)]_vars


\* the tracked state of pin q, PIN_STATES.get(q, False)
TrackedState(T, q) == IF DictHas(T, q) THEN DictGet(T, q) ELSE 0

\* the keys of regular pins that a step leaves configured, other than the one
\* the configuration window has selected
OtherPins ==
    {q \in DictKeys(Config) \cap DictKeys(Config') :
        isdigit(q) /\ q # config_window.pin_var}

\* C30: assigning or deleting the entry of one pin leaves PIN_STATES[q] and
\* the driven output level of every other configured pin q as they were: an
\* output the operator toggled ON stays ON
OtherPinsUndisturbed ==
    [][ops' = ops + 1
          => \A q \in OtherPins :
                /\ TrackedState(PIN_STATES', int(q)) = TrackedState(PIN_STATES, int(q))
                /\ mock_input(GPIO_state', int(q)) = mock_input(GPIO_state, int(q))]_vars
====
